--------------------------- MODULE Tables_proofs ---------------------------
(***************************************************************************)
(* Proofs about trees and tables.  The children of a MIB node are sorted   *)
(* and none is lost, for any number of them and any sub-identifiers; what  *)
(* is asked for is what is described, and the search finds every match, in *)
(* any tree; the panel shows the clauses of an object, whichever it has;   *)
(* the index window shows the walk it was opened for; what access control  *)
(* says of a subtree holds below it, for any families of views; what MIB   *)
(* modules define gets into the tree, in whatever order they are read.     *)
(***************************************************************************)
EXTENDS TreeOrder, TreeSelection, IndexTable, Vacm, MibNode, MibLinker, Induction,
        SequenceTheorems

-----------------------------------------------------------------------------
(* The order of the tree (TreeOrder).                                      *)

\* The first i - 1 are in their places, and j has gone past what the current
\* one was compared with.
SortInv ==
    phase = "sort" =>
        /\ j > i
        /\ \A a, b \in 1 .. N : a < i /\ a < b => At(a) >= At(b)
        /\ \A b \in 1 .. N : i < b /\ b < j => At(i) >= At(b)

\* Both ends are reversed, the middle still descends.
Middle(k) == i <= k /\ k <= N - i + 1

ReverseInv ==
    phase = "reverse" =>
        \A a, b \in 1 .. N : a < b =>
            IF Middle(a) /\ Middle(b) THEN At(a) >= At(b) ELSE At(a) <= At(b)

OrderInv == TypeOK /\ SortInv /\ ReverseInv /\ Sorted

\* An exchange within the bounds keeps the type of the vector.
LEMMA ExchangeType ==
    ASSUME TypeOK, NEW a \in 1 .. N, NEW b \in 1 .. N, elements' = Exchanged(a, b)
    PROVE  /\ elements' \in [1 .. N -> 1 .. N]
           /\ elements'[a] = elements[b]
           /\ elements'[b] = elements[a]
           /\ \A k \in 1 .. N : k # a /\ k # b => elements'[k] = elements[k]
<1>1. elements \in [1 .. N -> 1 .. N]
  BY DEF TypeOK
<1>2. elements[a] \in 1 .. N /\ elements[b] \in 1 .. N
  BY <1>1
<1> QED BY <1>1, <1>2 DEF Exchanged

\* Nothing is compared yet.
LEMMA OrderInitInv == Init => OrderInv
<1> SUFFICES ASSUME Init PROVE OrderInv
  OBVIOUS
<1> USE TreeOrderAssumption
<1>1. TypeOK
  BY DEF Init, TypeOK
<1>2. SortInv
  <2>1. i = 1 /\ j = 2
    BY DEF Init
  <2>2. \A b \in 1 .. N : ~(b < i) /\ ~(i < b /\ b < j)
    BY <2>1
  <2> QED BY <2>1, <2>2 DEF SortInv
<1>3. ReverseInv /\ Sorted
  BY DEF Init, ReverseInv, Sorted
<1> QED BY <1>1, <1>2, <1>3 DEF OrderInv

\* Sorting downwards and exchanging the ends, step by step.
LEMMA OrderStepInv == OrderInv /\ [Next]_vars => OrderInv'
<1> SUFFICES ASSUME OrderInv, [Next]_vars PROVE OrderInv'
  OBVIOUS
<1> USE TreeOrderAssumption
<1>0. TypeOK /\ SortInv /\ ReverseInv /\ Sorted
  BY DEF OrderInv
<1>a. \A k \in 1 .. N : At(k) \in Nat
  BY <1>0 DEF TypeOK, At
<1>1. CASE Compare
  <2>1. i \in 1 .. N /\ j \in 1 .. N /\ i < j
    BY <1>0, <1>1 DEF Compare, TypeOK, SortInv
  <2>2. CASE At(j) > At(i)
    <3>1. elements' = Exchanged(i, j)
      BY <2>2, <1>1 DEF Compare
    <3>2. /\ elements' \in [1 .. N -> 1 .. N]
          /\ \A k \in 1 .. N : elements'[k] =
                IF k = j THEN elements[i] ELSE IF k = i THEN elements[j] ELSE elements[k]
      BY <3>1, <2>1, <1>0, ExchangeType DEF TypeOK
    <3>3. \A k \in 1 .. N :
             At(k)' = IF k = j THEN At(i) ELSE IF k = i THEN At(j) ELSE At(k)
      BY <3>2, <2>1, <1>1 DEF At, Compare
    <3>4. TypeOK'
      <4>1. UNCHANGED <<subid, phase, i>> /\ j' = j + 1
        BY <1>1 DEF Compare
      <4>2. j' \in 2 .. N + 2
        BY <4>1, <2>1, <1>0 DEF TypeOK
      <4> QED BY <4>1, <4>2, <3>2, <1>0 DEF TypeOK
    <3>5. SortInv'
      <4>1. phase = "sort" /\ i' = i /\ j' = j + 1
        BY <1>1 DEF Compare
      <4>2. \A a, b \in 1 .. N : a < i /\ a < b => At(a)' >= At(b)'
        BY <3>3, <2>1, <1>0, <4>1, <1>a DEF SortInv
      <4>3. \A b \in 1 .. N : i < b /\ b < j + 1 => At(i)' >= At(b)'
        BY <3>3, <2>1, <2>2, <1>0, <4>1, <1>a DEF SortInv
      <4>4. j' > i'
        BY <4>1, <2>1, <1>0 DEF SortInv, TypeOK
      <4> QED BY <4>1, <4>2, <4>3, <4>4 DEF SortInv
    <3> QED BY <3>4, <3>5, <1>1 DEF OrderInv, ReverseInv, Sorted, Compare
  <2>3. CASE ~(At(j) > At(i))
    <3>1. UNCHANGED <<subid, elements, phase, i>> /\ j' = j + 1 /\ phase = "sort"
      BY <2>3, <1>1 DEF Compare
    <3>2. TypeOK'
      BY <3>1, <2>1, <1>0 DEF TypeOK
    <3>3. \A k \in 1 .. N : At(k)' = At(k)
      BY <3>1 DEF At
    <3>4. \A b \in 1 .. N : i < b /\ b < j + 1 => At(i) >= At(b)
      BY <2>1, <2>3, <1>0, <3>1, <1>a DEF SortInv
    <3>5. SortInv'
      BY <3>1, <3>4, <2>1, <1>0 DEF SortInv, At
    <3> QED BY <3>1, <3>2, <3>5 DEF OrderInv, ReverseInv, Sorted
  <2> QED BY <2>2, <2>3
<1>2. CASE NextRow
  <2>1. /\ UNCHANGED <<subid, elements, phase>> /\ phase = "sort"
        /\ i' = i + 1 /\ j' = i + 2 /\ i <= N /\ j > N
    BY <1>2 DEF NextRow
  <2>2. TypeOK'
    <3>1. i' \in 1 .. N + 1 /\ j' \in 2 .. N + 2
      BY <2>1, <1>0 DEF TypeOK
    <3> QED BY <2>1, <3>1, <1>0 DEF TypeOK
  <2>3. ASSUME NEW a \in 1 .. N, NEW b \in 1 .. N, a < i + 1, a < b
        PROVE  At(a) >= At(b)
    <3>1. CASE a < i
      BY <3>1, <2>1, <2>3, <1>0 DEF SortInv
    <3>2. CASE a = i
      <4>1. i < b /\ b < j
        BY <3>2, <2>1, <2>3, <1>0 DEF TypeOK
      <4> QED BY <4>1, <3>2, <2>1, <1>0 DEF SortInv
    <3> QED BY <3>1, <3>2, <2>3, <1>0 DEF TypeOK
  <2>4. SortInv'
    <3>1. \A a, b \in 1 .. N : a < i + 1 /\ a < b => At(a)' >= At(b)'
      BY <2>1, <2>3 DEF At
    <3>2. \A b \in 1 .. N : ~(i + 1 < b /\ b < i + 2)
      BY <1>0 DEF TypeOK
    <3>3. j' > i'
      BY <2>1, <1>0 DEF TypeOK
    <3> QED BY <2>1, <3>1, <3>2, <3>3 DEF SortInv
  <2> QED BY <2>1, <2>2, <2>4 DEF OrderInv, ReverseInv, Sorted
<1>3. CASE StartReversal
  <2>1. /\ UNCHANGED <<subid, elements, j>> /\ phase = "sort" /\ phase' = "reverse"
        /\ i' = 1 /\ i > N
    BY <1>3 DEF StartReversal
  <2>2. TypeOK'
    <3>1. i' \in 1 .. N + 1
      BY <2>1
    <3> QED BY <2>1, <3>1, <1>0 DEF TypeOK
  <2>3. \A a, b \in 1 .. N : a < b => At(a) >= At(b)
    BY <2>1, <1>0 DEF SortInv, TypeOK
  <2>4. ReverseInv'
    BY <2>1, <2>3 DEF ReverseInv, Middle, At
  <2> QED BY <2>1, <2>2, <2>4 DEF OrderInv, SortInv, Sorted
<1>4. CASE ExchangeEnds
  <2>1. /\ phase = "reverse" /\ 2 * i <= N /\ i' = i + 1
        /\ elements' = Exchanged(i, N - i + 1)
        /\ UNCHANGED <<subid, phase, j>>
    BY <1>4 DEF ExchangeEnds
  <2>2. i \in 1 .. N /\ N - i + 1 \in 1 .. N /\ i < N - i + 1
    BY <2>1, <1>0 DEF TypeOK
  <2>3. /\ elements' \in [1 .. N -> 1 .. N]
        /\ \A k \in 1 .. N : elements'[k] =
              IF k = N - i + 1 THEN elements[i]
              ELSE IF k = i THEN elements[N - i + 1] ELSE elements[k]
    BY <2>1, <2>2, <1>0, ExchangeType DEF TypeOK
  <2>4. \A k \in 1 .. N :
           At(k)' = IF k = N - i + 1 THEN At(i)
                    ELSE IF k = i THEN At(N - i + 1) ELSE At(k)
    BY <2>3, <2>1, <2>2 DEF At
  <2>5. TypeOK'
    <3>1. i' \in 1 .. N + 1
      BY <2>1, <2>2
    <3> QED BY <2>1, <2>3, <3>1, <1>0 DEF TypeOK
  <2>6. ASSUME NEW a \in 1 .. N, NEW b \in 1 .. N, a < b
        PROVE  IF Middle(a)' /\ Middle(b)' THEN At(a)' >= At(b)' ELSE At(a)' <= At(b)'
    <3> DEFINE l == i
               r == N - i + 1
    <3>1. l \in 1 .. N /\ r \in 1 .. N /\ l < r
      BY <2>2
    <3>2. \A c, d \in 1 .. N : c < d =>
             IF l <= c /\ c <= r /\ l <= d /\ d <= r
             THEN At(c) >= At(d) ELSE At(c) <= At(d)
      BY <2>1, <1>0 DEF ReverseInv, Middle
    <3>3. (Middle(a)' <=> l < a /\ a < r) /\ (Middle(b)' <=> l < b /\ b < r)
      BY <2>1, <2>2 DEF Middle
    <3>4. /\ At(a)' = IF a = r THEN At(l) ELSE IF a = l THEN At(r) ELSE At(a)
          /\ At(b)' = IF b = r THEN At(l) ELSE IF b = l THEN At(r) ELSE At(b)
      BY <2>4
    <3>5. /\ At(l) \in Nat /\ At(r) \in Nat /\ At(a) \in Nat /\ At(b) \in Nat
      BY <1>a, <3>1
    <3> HIDE DEF l, r
    <3>6. CASE a < l \/ b > r
      <4>1. At(a)' <= At(b)'
        BY <3>1, <3>2, <3>4, <3>5, <3>6, <2>6
      <4> QED BY <4>1, <3>1, <3>3, <3>6, <2>6
    <3>7. CASE l <= a /\ b <= r
      BY <3>1, <3>2, <3>3, <3>4, <3>5, <3>7, <2>6
    <3> QED BY <3>6, <3>7, <3>1
  <2>7. ReverseInv'
    BY <2>6 DEF ReverseInv
  <2> QED BY <2>1, <2>5, <2>7 DEF OrderInv, SortInv, Sorted
<1>5. CASE Finish
  <2>1. /\ phase = "reverse" /\ 2 * i > N /\ phase' = "done"
        /\ UNCHANGED <<subid, elements, i, j>>
    BY <1>5 DEF Finish
  <2>2. TypeOK'
    BY <2>1, <1>0 DEF TypeOK
  <2>3. \A a, b \in 1 .. N : a < b => At(a) <= At(b)
    BY <2>1, <1>0 DEF ReverseInv, Middle, TypeOK
  <2>4. Sorted'
    BY <2>1, <2>3 DEF Sorted, At
  <2> QED BY <2>1, <2>2, <2>4 DEF OrderInv, SortInv, ReverseInv
<1>6. CASE UNCHANGED vars
  BY <1>6, <1>0 DEF OrderInv, TypeOK, SortInv, ReverseInv, Sorted, Middle, At, vars
<1> QED BY <1>1, <1>2, <1>3, <1>4, <1>5, <1>6 DEF Next

\* The children of a MIB node end up in the order of their sub-identifiers
\* (form.cpp:76-89), however many they are and in whatever order they come.
THEOREM SortedInTheEnd == Spec => []Sorted
<1>1. OrderInv => Sorted
  BY DEF OrderInv
<1> QED BY <1>1, OrderInitInv, OrderStepInv, PTL DEF Spec

\* The loop counters stay within the vector.
THEOREM OrderTypes == Spec => []TypeOK
<1>1. OrderInv => TypeOK
  BY DEF OrderInv
<1> QED BY <1>1, OrderInitInv, OrderStepInv, PTL DEF Spec

\* Every peer is in its place.
LEMMA InitEveryPeerOnce == Init => EveryPeerOnce
BY DEF Init, EveryPeerOnce

\* An exchange moves peers, and no more.
LEMMA StepEveryPeerOnce ==
    TypeOK /\ TypeOK' /\ EveryPeerOnce /\ [Next]_vars /\ OrderInv => EveryPeerOnce'
<1> SUFFICES ASSUME TypeOK, TypeOK', EveryPeerOnce, [Next]_vars, OrderInv
             PROVE  EveryPeerOnce'
  OBVIOUS
<1> USE TreeOrderAssumption
<1>1. ASSUME NEW a \in 1 .. N, NEW b \in 1 .. N, elements' = Exchanged(a, b)
      PROVE  EveryPeerOnce'
  <2>1. \A k \in 1 .. N : elements'[k] =
           IF k = b THEN elements[a] ELSE IF k = a THEN elements[b] ELSE elements[k]
    BY <1>1, ExchangeType DEF TypeOK
  <2>2. ASSUME NEW k \in 1 .. N
        PROVE  \E p \in 1 .. N :
                  elements'[p] = k /\ \A q \in (1 .. N) \ {p} : elements'[q] # k
    <3>1. PICK p \in 1 .. N :
             elements[p] = k /\ \A q \in (1 .. N) \ {p} : elements[q] # k
      BY DEF EveryPeerOnce
    <3>2. CASE p = a
      BY <2>1, <3>1, <3>2
    <3>3. CASE p = b
      BY <2>1, <3>1, <3>3
    <3>4. CASE p # a /\ p # b
      BY <2>1, <3>1, <3>4
    <3> QED BY <3>2, <3>3, <3>4
  <2> QED BY <2>2 DEF EveryPeerOnce
<1>2. CASE elements' = elements
  BY <1>2 DEF EveryPeerOnce
<1>3. CASE Compare
  <2>1. i \in 1 .. N /\ j \in 1 .. N
    BY <1>3 DEF Compare, TypeOK
  <2>2. elements' = Exchanged(i, j) \/ elements' = elements
    BY <1>3 DEF Compare
  <2> QED BY <2>1, <2>2, <1>1, <1>2
<1>4. CASE ExchangeEnds
  <2>1. i \in 1 .. N /\ N - i + 1 \in 1 .. N
    BY <1>4 DEF ExchangeEnds, TypeOK
  <2>2. elements' = Exchanged(i, N - i + 1)
    BY <1>4 DEF ExchangeEnds
  <2> QED BY <2>1, <2>2, <1>1
<1>5. CASE NextRow \/ StartReversal \/ Finish \/ UNCHANGED vars
  BY <1>5, <1>2 DEF NextRow, StartReversal, Finish, vars
<1> QED BY <1>3, <1>4, <1>5 DEF Next

\* Every child of a MIB node becomes one item of the tree, at every moment of
\* the sort: no exchange loses or doubles one.
THEOREM NoPeerLost == Spec => []EveryPeerOnce
<1>1. OrderInv => TypeOK
  BY DEF OrderInv
<1> QED BY <1>1, OrderInitInv, OrderStepInv, InitEveryPeerOnce, StepEveryPeerOnce, PTL DEF Spec

\* The children of a MIB node become its items in MIB order, each of them once,
\* however many they are and whatever their sub-identifiers.
THEOREM ChildrenInOrder == Spec => []TreeInOrder
<1>1. Sorted /\ EveryPeerOnce => TreeInOrder
  BY DEF TreeInOrder
<1> QED BY <1>1, SortedInTheEnd, NoPeerLost, PTL

-----------------------------------------------------------------------------
(* The selection and the search (TreeSelection).                           *)

\* The search has found the matches up to the place of its counter.
SelectionInv ==
    /\ query \in Queries
    /\ search.count \in Nat /\ search.list \in Seq(Items)
    /\ search = [text |-> search.text, count |-> search.count,
                 list |-> search.list, found |-> search.found]
    /\ search.found = {search.list[k] : k \in {m \in DOMAIN search.list : m <= search.count + 1}}

\* The panel, the OID field and the Indexes button show the same item, unless the
\* field was edited.
DescribedInv == oid \in {described, Typed} /\ (indexes => described \in Tables)

\* A search starts with the first match of a new text, and goes on to the next.
LEMMA SearchStep ==
    ASSUME SelectionInv, SearchReturn
    PROVE  SelectionInv'
<1> DEFINE s == NextSearch(query)
<1>1. /\ s.count \in Nat /\ s.list \in Seq(Items) /\ Len(s.list) \in Nat
      /\ s = [text |-> s.text, count |-> s.count, list |-> s.list, found |-> s.found]
      /\ s.found = {s.list[k] : k \in {m \in DOMAIN s.list : m <= s.count}}
  <2>1. CASE search.text # query
    <3>1. s = [text |-> query, count |-> 0, list |-> Matching[query], found |-> {}]
      BY <2>1 DEF NextSearch
    <3>2. Matching[query] \in Seq(Items)
      BY TreeSelectionAssumption DEF SelectionInv
    <3> QED  BY <3>1, <3>2
  <2>2. CASE search.text = query
    <3>1. s = [text |-> search.text, count |-> search.count + 1, list |-> search.list,
               found |-> search.found]
      <4>1. s = [search EXCEPT !.count = @ + 1]
        BY <2>2 DEF NextSearch
      <4> QED  BY <4>1 DEF SelectionInv
    <3> QED  BY <3>1 DEF SelectionInv
  <2> QED  BY <2>1, <2>2
<1>2. query' = query
  BY DEF SearchReturn
<1>3. IF s.count < Len(s.list)
      THEN search' = [s EXCEPT !.found = @ \cup {s.list[s.count + 1]}]
      ELSE search' = s
  BY DEF SearchReturn
<1> HIDE DEF s
<1>4. DOMAIN s.list = 1 .. Len(s.list)
  BY <1>1
<1>5. CASE s.count < Len(s.list)
  <2>1. search' = [text |-> s.text, count |-> s.count, list |-> s.list,
                   found |-> s.found \cup {s.list[s.count + 1]}]
    BY <1>1, <1>3, <1>5
  <2>2. {m \in DOMAIN s.list : m <= s.count + 1}
          = {m \in DOMAIN s.list : m <= s.count} \cup {s.count + 1}
    BY <1>1, <1>4, <1>5
  <2>3. s.found \cup {s.list[s.count + 1]}
          = {s.list[k] : k \in {m \in DOMAIN s.list : m <= s.count + 1}}
    BY <1>1, <2>2
  <2> QED  BY <1>1, <1>2, <2>1, <2>3 DEF SelectionInv
<1>6. CASE ~ (s.count < Len(s.list))
  <2>1. {m \in DOMAIN s.list : m <= s.count + 1} = {m \in DOMAIN s.list : m <= s.count}
    BY <1>1, <1>4, <1>6
  <2> QED  BY <1>1, <1>2, <1>3, <1>6, <2>1 DEF SelectionInv
<1> QED  BY <1>5, <1>6

\* The other slots leave the search alone; a new text is one of the queries.
LEMMA SelectionStepInv == SelectionInv /\ [SelectionNext]_selectionVars => SelectionInv'
<1> SUFFICES ASSUME SelectionInv, [SelectionNext]_selectionVars  PROVE SelectionInv'
  OBVIOUS
<1>1. CASE SearchReturn
  BY <1>1, SearchStep
<1>2. ASSUME NEW q \in Queries, SearchTextChanged(q)  PROVE SelectionInv'
  BY <1>2 DEF SearchTextChanged, SelectionInv
<1>3. CASE UNCHANGED <<query, search>>
  BY <1>3 DEF SelectionInv
<1>4. CASE \E item \in Items : Click(item) \/ Key(item)
  BY <1>3, <1>4 DEF Click, Key
<1>5. CASE TypeOid \/ ClickGet \/ ClickGetNext \/ ClickIndexes \/ ClickIndexesNoChild
  BY <1>3, <1>5 DEF TypeOid, ClickGet, ClickGetNext, ClickIndexes, ClickIndexesNoChild, Asks
<1> QED  BY <1>1, <1>2, <1>3, <1>4, <1>5 DEF SelectionNext, selectionVars

\* Going on with Return selects every match of the text of the search field
\* (form.cpp), in any tree and whatever is clicked, typed or asked for in between.
THEOREM SearchFinds == SelectionSpec => []EveryMatchFound
<1>1. SelectionInit => SelectionInv
  <2> SUFFICES ASSUME SelectionInit  PROVE SelectionInv
    OBVIOUS
  <2>1. search = [text |-> None, count |-> 0, list |-> <<>>, found |-> {}]
    BY DEF SelectionInit
  <2>2. query \in Queries
    BY TreeSelectionAssumption DEF SelectionInit
  <2> QED  BY <2>1, <2>2 DEF SelectionInv
<1>2. SelectionInv => EveryMatchFound
  <2> SUFFICES ASSUME SelectionInv, search.count + 1 >= Len(search.list)
               PROVE  search.found = ToSet(search.list)
    BY DEF EveryMatchFound
  <2>1. {m \in DOMAIN search.list : m <= search.count + 1} = DOMAIN search.list
    BY DEF SelectionInv
  <2> QED  BY <2>1 DEF SelectionInv, ToSet
<1> QED  BY <1>1, <1>2, SelectionStepInv, PTL DEF SelectionSpec

\* ItemInfo sets all three.
LEMMA DescribedStep ==
    ASSUME DescribedInv, [SelectionNext]_selectionVars
    PROVE  DescribedInv'
<1>1. CASE \E item \in Items : Selected(item)
  BY <1>1 DEF Selected, ItemInfo, DescribedInv
<1>2. CASE UNCHANGED <<described, oid, indexes>>
  BY <1>2 DEF DescribedInv
<1>3. CASE \E item \in Items : Click(item) \/ Key(item)
  BY <1>1, <1>2, <1>3 DEF Click, Key
<1>4. ASSUME NEW q \in Queries, SearchTextChanged(q)  PROVE DescribedInv'
  BY <1>4 DEF SearchTextChanged, Selected, ItemInfo, DescribedInv
<1>5. CASE SearchReturn
  BY <1>5 DEF SearchReturn, Selected, ItemInfo, DescribedInv
<1>6. CASE TypeOid
  BY <1>6 DEF TypeOid, DescribedInv
<1>7. CASE ClickGet \/ ClickGetNext \/ ClickIndexes \/ ClickIndexesNoChild
  BY <1>2, <1>7 DEF ClickGet, ClickGetNext, ClickIndexes, ClickIndexesNoChild, Asks
<1> QED
  BY <1>2, <1>3, <1>4, <1>5, <1>6, <1>7 DEF SelectionNext, selectionVars

\* A click that asks for something reads the current item and the OID field.
AsksStep ==
    /\ request' # request /\ oid # Typed /\ request'.type # "WalkTable" =>
         /\ request'.for = described
         /\ request'.type = "Get" => current # described
    /\ current = described /\ Up =>
         /\ (\A t \in Tables : Children[t] # <<>>) => program' = "up"
         /\ request'.type = "WalkTable" /\ request' # request
              => request'.for = described /\ described \in Tables

\* A column, a scalar and a typed OID are asked for differently, but all are what
\* the panel describes, unless the keys or the user have changed it.
LEMMA AsksInStep ==
    ASSUME DescribedInv, [SelectionNext]_selectionVars
    PROVE  AsksStep
<1>1. CASE UNCHANGED <<program, request>>
  BY <1>1 DEF AsksStep, Up
<1>2. CASE \/ SearchReturn \/ TypeOid \/ \E item \in Items : Click(item) \/ Key(item)
           \/ \E q \in Queries : SearchTextChanged(q)
  BY <1>1, <1>2 DEF SearchReturn, TypeOid, Click, Key, SearchTextChanged
<1>3. CASE ClickGet
  BY <1>3 DEF ClickGet, Asks, AsksStep, DescribedInv, Up
<1>4. CASE ClickGetNext
  BY <1>4 DEF ClickGetNext, Asks, AsksStep, DescribedInv, Up
<1>5. CASE ClickIndexes
  BY <1>5 DEF ClickIndexes, Asks, AsksStep, DescribedInv, Up
<1>6. CASE ClickIndexesNoChild
  BY <1>6 DEF ClickIndexesNoChild, AsksStep, DescribedInv, Up
<1> QED
  BY <1>1, <1>2, <1>3, <1>4, <1>5, <1>6 DEF SelectionNext, selectionVars

\* Requests are for the described object, in any tree and after any sequence of
\* clicks, keys and searches (form.cpp).
THEOREM AsksDescribed == SelectionSpec => AsksForTheDescribed
<1>1. SelectionInit => DescribedInv
  BY DEF SelectionInit, DescribedInv
<1>2. DescribedInv /\ [SelectionNext]_selectionVars => AsksStep
  BY AsksInStep
<1>3. DescribedInv /\ [SelectionNext]_selectionVars => DescribedInv'
  BY DescribedStep
<1> QED  BY <1>1, <1>2, <1>3, PTL DEF SelectionSpec, AsksForTheDescribed, AsksStep

-----------------------------------------------------------------------------
(* The index window (IndexTable).                                          *)

\* The columns are numbered from 1 without a gap.
NoGap == \A c \in DOMAIN Headings : Headings[c] = c

IndexTypeOK ==
    /\ vertical \in Seq(Nat) /\ horizontal \in Seq(Nat)
    /\ pending \in Nat
    /\ history \in [lines : SUBSET Instances, overlapped : BOOLEAN, turned : BOOLEAN]

\* The instance that belongs at a place, by the headings there.
KeyAt(p) ==
    IF history.turned THEN <<vertical[p[1]], horizontal[p[2]]>>
    ELSE <<horizontal[p[2]], vertical[p[1]]>>

\* Items are there from the table of a walk until the next one is asked for,
\* which without an overlap is before that one's table comes.
Cleared ==
    /\ \A p \in Grid : cell[p] = NoItem <=> history.lines = {}
    /\ window = "null item" => history.lines = {}

OneAtATime == ~history.overlapped => pending <= 1 /\ (pending > 0 => history.lines = {})

\* What is shown is the last walk, as far as it has rows.
LastShown ==
    ~history.overlapped /\ history.lines # {} =>
        /\ Headings = IF history.turned THEN vertical ELSE horizontal
        /\ \A p \in Grid : cell[p] = IF KeyAt(p) \in history.lines THEN KeyAt(p) ELSE NotAvailable

IndexInv == IndexTypeOK /\ Cleared /\ OneAtATime /\ LastShown

\* A column and a row are a place of their own in the list of items.
LEMMA OnePlace ==
    ASSUME NEW n \in Nat, NEW r \in Nat \ {0}, NEW s \in Nat \ {0},
           NEW c \in 1 .. n, NEW d \in 1 .. n, (r - 1) * n + c = (s - 1) * n + d
    PROVE  r = s /\ c = d
<1>1. ASSUME NEW a \in Nat, NEW b \in Nat, a < b  PROVE b * n >= a * n + n
  <2> DEFINE more == b - (a + 1)
  <2>1. more \in Nat /\ b = a + 1 + more
    BY <1>1
  <2> HIDE DEF more
  <2>2. b * n = a * n + n + more * n
    BY <2>1
  <2>3. more * n >= 0 /\ a * n \in Nat /\ more * n \in Nat
    BY <2>1
  <2> QED  BY <2>2, <2>3
<1>2. r - 1 \in Nat /\ s - 1 \in Nat /\ (r - 1) * n \in Nat /\ (s - 1) * n \in Nat
  OBVIOUS
<1>3. CASE r < s
  <2>1. (s - 1) * n >= (r - 1) * n + n
    BY <1>1, <1>2, <1>3
  <2> DEFINE x == (r - 1) * n
             y == (s - 1) * n
  <2>2. x \in Nat /\ y \in Nat /\ y >= x + n /\ x + c = y + d
    BY <1>2, <2>1
  <2> HIDE DEF x, y
  <2> QED  BY <2>2
<1>4. CASE s < r
  <2>1. (r - 1) * n >= (s - 1) * n + n
    BY <1>1, <1>2, <1>4
  <2> DEFINE x == (r - 1) * n
             y == (s - 1) * n
  <2>2. x \in Nat /\ y \in Nat /\ x >= y + n /\ x + c = y + d
    BY <1>2, <2>1
  <2> HIDE DEF x, y
  <2> QED  BY <2>2
<1>5. CASE r = s
  <2> DEFINE x == (r - 1) * n
  <2>1. x \in Nat /\ x + c = x + d
    BY <1>2, <1>5
  <2> HIDE DEF x
  <2> QED  BY <1>5, <2>1
<1> QED  BY <1>3, <1>4, <1>5

\* The headings are numbers, of which none is that of what is not available.
LEMMA HeadingsAre ==
    /\ Headings \in Seq(Nat) /\ Len(Headings) \in Nat /\ DOMAIN Headings = 1 .. Len(Headings)
    /\ \A c \in 1 .. Len(Headings) : Headings[c] # 0
    /\ ToSet(Headings) = {Headings[c] : c \in 1 .. Len(Headings)}
    /\ NotAvailable \notin Instances /\ NoItem \notin Instances /\ NotAvailable # NoItem
<1>1. /\ Headings \in Seq(Nat) /\ Len(Headings) \in Nat /\ DOMAIN Headings = 1 .. Len(Headings)
      /\ \A c \in 1 .. Len(Headings) : Headings[c] # 0
  BY IndexTableAssumption
<1>2. ToSet(Headings) = {Headings[c] : c \in 1 .. Len(Headings)}
  BY <1>1 DEF ToSet
<1>3. NotAvailable \notin Instances
  BY <1>1, <1>2 DEF NotAvailable, Instances
<1>4. NotAvailable # NoItem
  BY DEF NotAvailable, NoItem
<1>5. NoItem \notin Instances
  BY DEF NoItem, Instances
<1> QED  BY <1>1, <1>2, <1>3, <1>4, <1>5

\* The rows are numbers.
LEMMA RowsAre == \A l : RowsOf(l) \in Seq(Nat)
<1> SUFFICES ASSUME NEW l  PROVE RowsOf(l) \in Seq(Nat)
  OBVIOUS
<1> DEFINE all == [r \in Indices |-> r]
           first == Min({x[1] : x \in l})
           places == {r \in Indices : <<first, r>> \in l}
<1>1. all \in Seq(Nat)
  BY IndexTableAssumption DEF Indices
<1> HIDE DEF all, places
<1>2. Chosen(all, places) \in Seq(Nat)
  BY <1>1, ChosenIs
<1> QED  BY <1>2 DEF RowsOf, all, places

\* Where all cells were empty, a walk's instance goes to its row and its column,
\* and nothing else goes there.
LEMMA FilledIs ==
    ASSUME NoGap, NEW l \in SUBSET Instances, NEW rows \in Seq(Nat),
           \A p \in Grid : cell[p] = NoItem,
           NEW p \in Positions(rows, Headings)
    PROVE  Filled(rows, l)[p] = IF <<Headings[p[2]], rows[p[1]]>> \in l
                                THEN <<Headings[p[2]], rows[p[1]]>> ELSE NotAvailable
<1> DEFINE n == Len(Headings)
           W == WrittenTo(p, rows, l)
           last == CHOOSE w \in W : \A u \in W : u[1] <= w[1]
           key == <<Headings[p[2]], rows[p[1]]>>
<1>1. /\ n \in Nat /\ Len(rows) \in Nat /\ p = <<p[1], p[2]>>
      /\ p[1] \in 1 .. Len(rows) /\ p[2] \in 1 .. n /\ Headings[p[2]] = p[2]
      /\ \A c \in ToSet(Headings) : c \in 1 .. n
      /\ p[2] \in ToSet(Headings)
  <2>1. n \in Nat /\ DOMAIN Headings = 1 .. n
        /\ ToSet(Headings) = {Headings[c] : c \in 1 .. n} /\ Len(rows) \in Nat
    BY HeadingsAre
  <2>2. p = <<p[1], p[2]>> /\ p[1] \in 1 .. Len(rows) /\ p[2] \in 1 .. n
    BY DEF Positions
  <2>3. \A c \in 1 .. n : Headings[c] = c
    BY <2>1 DEF NoGap
  <2> QED  BY <2>1, <2>2, <2>3
<1>2. Filled(rows, l)[p] = IF W # {} THEN <<last[2], rows[last[1]]>>
                           ELSE IF p \in Grid /\ cell[p] # NoItem THEN cell[p]
                           ELSE NotAvailable
  BY DEF Filled
<1>3. ASSUME NEW w \in W  PROVE w = <<p[1], p[2]>> /\ key \in l
  <2>1. PICK r \in 1 .. Len(rows), c \in ToSet(Headings) :
           w = <<r, c>> /\ <<c, rows[r]>> \in l /\ (r - 1) * n + c = (p[1] - 1) * n + p[2]
    <3>1. /\ w \in (1 .. Len(rows)) \X ToSet(Headings)
          /\ <<w[2], rows[w[1]]>> \in l
          /\ (w[1] - 1) * n + w[2] = (p[1] - 1) * n + p[2]
      BY DEF WrittenTo, ListPosition, ColumnNumber
    <3> HIDE DEF n, W
    <3>2. w[1] \in 1 .. Len(rows) /\ w[2] \in ToSet(Headings) /\ w = <<w[1], w[2]>>
      BY <3>1
    <3> QED  BY <3>1, <3>2
  <2>2. r \in Nat \ {0} /\ p[1] \in Nat \ {0} /\ c \in 1 .. n
    BY <1>1
  <2>3. r = p[1] /\ c = p[2]
    <3> DEFINE s == p[1]
               d == p[2]
    <3>1. s \in Nat \ {0} /\ d \in 1 .. n /\ (r - 1) * n + c = (s - 1) * n + d
      BY <1>1, <2>1, <2>2
    <3> HIDE DEF s, d, n
    <3>2. r = s /\ c = d
      BY <1>1, <2>2, <3>1, OnePlace
    <3> QED  BY <3>2 DEF s, d
  <2> QED  BY <1>1, <2>1, <2>3
<1>4. key \in l => <<p[1], p[2]>> \in W
  BY <1>1 DEF WrittenTo, ListPosition, ColumnNumber
<1> HIDE DEF W, n
<1>5. CASE W = {}
  <2>1. Filled(rows, l)[p] = NotAvailable
    BY <1>2, <1>5
  <2> QED  BY <1>4, <1>5, <2>1
<1>6. CASE W # {}
  <2>1. PICK w \in W : TRUE
    BY <1>6
  <2>2. W = {<<p[1], p[2]>>} /\ key \in l
    BY <1>3, <2>1
  <2>3. last = <<p[1], p[2]>>
    <3>1. <<p[1], p[2]>> \in W /\ \A u \in W : u[1] <= <<p[1], p[2]>>[1]
      BY <1>1, <2>2
    <3>2. last \in W
      BY <3>1
    <3> QED  BY <2>2, <3>2
  <2> QED  BY <1>1, <1>2, <1>6, <2>2, <2>3
<1> QED  BY <1>5, <1>6

\* The table of a walk.
LEMMA TableKeeps ==
    ASSUME NoGap, IndexInv, GetTable
    PROVE  IndexInv'
<1>1. PICK l \in (SUBSET Instances) \ {{}} :
        LET rows == RowsOf(l) IN
        IF Unreadable(rows, l)
        THEN /\ window' = "list index out of range"
             /\ UNCHANGED <<vertical, horizontal, cell, history>>
        ELSE /\ vertical' = rows
             /\ horizontal' = Headings
             /\ cell' = Filled(rows, l)
             /\ history' = [history EXCEPT !.lines = l, !.turned = FALSE]
             /\ UNCHANGED window
  BY DEF GetTable
<1>2. window = "up" /\ pending > 0 /\ pending' = pending - 1
  BY DEF GetTable, Alive
<1>3. IndexTypeOK /\ Cleared /\ OneAtATime /\ LastShown /\ pending \in Nat /\ pending' \in Nat
  BY <1>2 DEF IndexInv, IndexTypeOK
<1> DEFINE rows == RowsOf(l)
<1>4. CASE Unreadable(rows, l)
  <2>1. window' = "list index out of range"
        /\ UNCHANGED <<vertical, horizontal, cell, history>>
    BY <1>1, <1>4
  <2>2. IndexTypeOK' /\ LastShown'
    BY <1>3, <2>1 DEF IndexTypeOK, LastShown, Grid, KeyAt
  <2>3. Cleared'
    BY <1>3, <2>1 DEF Cleared, Grid
  <2>4. OneAtATime'
    <3>1. history' = history
      BY <2>1
    <3>2. ~history.overlapped => ~(pending' > 0) /\ pending' <= 1
      BY <1>2, <1>3 DEF OneAtATime
    <3> QED  BY <3>1, <3>2 DEF OneAtATime
  <2> QED  BY <2>2, <2>3, <2>4 DEF IndexInv
<1>5. CASE ~Unreadable(rows, l)
  <2>1. /\ vertical' = rows /\ horizontal' = Headings /\ cell' = Filled(rows, l)
        /\ history' = [history EXCEPT !.lines = l, !.turned = FALSE] /\ window' = window
    BY <1>1, <1>5
  <2>2. rows \in Seq(Nat) /\ Headings \in Seq(Nat)
    BY RowsAre, HeadingsAre
  <2> HIDE DEF rows
  <2>3. /\ history'.lines = l /\ ~history'.turned /\ history'.overlapped = history.overlapped
        /\ history' \in [lines : SUBSET Instances, overlapped : BOOLEAN, turned : BOOLEAN]
    BY <1>3, <2>1 DEF IndexTypeOK
  <2>4. IndexTypeOK'
    BY <1>3, <2>1, <2>2, <2>3 DEF IndexTypeOK
  <2>5. Grid' = Positions(rows, Headings)
    BY <2>1 DEF Grid
  <2>6. ASSUME NEW p \in Grid'  PROVE cell'[p] # NoItem
    <3> DEFINE W == WrittenTo(p, rows, l)
               last == CHOOSE w \in W : \A u \in W : u[1] <= w[1]
    <3>1. cell'[p] = IF W # {} THEN <<last[2], rows[last[1]]>>
                     ELSE IF p \in Grid /\ cell[p] # NoItem THEN cell[p]
                     ELSE NotAvailable
      BY <2>1, <2>5, <2>6 DEF Filled
    <3> HIDE DEF W, last
    <3>2. <<last[2], rows[last[1]]>> # NoItem
      BY DEF NoItem
    <3> QED  BY <3>1, <3>2, HeadingsAre
  <2>7. Cleared' /\ OneAtATime'
    <3>1. ~history.overlapped => pending' <= 0
      BY <1>2, <1>3 DEF OneAtATime
    <3>2. OneAtATime'
      BY <1>3, <2>3, <3>1 DEF OneAtATime
    <3>3. l # {} /\ window' # "null item"
      BY <1>2, <2>1
    <3> QED  BY <2>3, <2>6, <3>2, <3>3 DEF Cleared
  <2>8. LastShown'
    <3> SUFFICES ASSUME ~history.overlapped
                 PROVE  \A p \in Grid' : cell'[p] = IF KeyAt(p)' \in l THEN KeyAt(p)' ELSE NotAvailable
      BY <2>1, <2>3 DEF LastShown
    <3>1. \A p \in Grid : cell[p] = NoItem
      BY <1>2, <1>3 DEF Cleared, OneAtATime
    <3> SUFFICES ASSUME NEW p \in Grid'
                 PROVE  cell'[p] = IF KeyAt(p)' \in l THEN KeyAt(p)' ELSE NotAvailable
      OBVIOUS
    <3>2. KeyAt(p)' = <<Headings[p[2]], rows[p[1]]>>
      BY <2>1, <2>3 DEF KeyAt
    <3>3. Filled(rows, l)[p] = IF <<Headings[p[2]], rows[p[1]]>> \in l
                               THEN <<Headings[p[2]], rows[p[1]]>> ELSE NotAvailable
      BY <1>1, <2>2, <2>5, <3>1, FilledIs
    <3> QED  BY <2>1, <3>2, <3>3
  <2> QED  BY <2>4, <2>7, <2>8 DEF IndexInv
<1> QED  BY <1>4, <1>5

\* A table turned over.
LEMMA TransposeKeeps ==
    ASSUME IndexInv, Transpose
    PROVE  IndexInv'
<1>1. /\ window' = window /\ pending' = pending /\ vertical' = horizontal
      /\ horizontal' = vertical
      /\ cell' = [p \in Positions(horizontal, vertical) |-> cell[<<p[2], p[1]>>]]
      /\ history' = [history EXCEPT !.turned = ~@]
      /\ \A p \in Grid : cell[p] # NoItem
  BY DEF Transpose
<1>2. IndexTypeOK /\ Cleared /\ OneAtATime /\ LastShown
  BY DEF IndexInv
<1>3. /\ history'.lines = history.lines /\ history'.overlapped = history.overlapped
      /\ history'.turned = ~history.turned /\ history.turned \in BOOLEAN
      /\ history' \in [lines : SUBSET Instances, overlapped : BOOLEAN, turned : BOOLEAN]
  BY <1>1, <1>2 DEF IndexTypeOK
<1>4. IndexTypeOK'
  BY <1>1, <1>2, <1>3 DEF IndexTypeOK
<1>5. ASSUME NEW p \in Grid'
      PROVE  /\ <<p[2], p[1]>> \in Grid /\ cell'[p] = cell[<<p[2], p[1]>>]
             /\ KeyAt(p)' = KeyAt(<<p[2], p[1]>>)
  <2>1. p \in Positions(horizontal, vertical)
    BY <1>1 DEF Grid
  <2>2. <<p[2], p[1]>> \in Grid
    BY <2>1 DEF Grid, Positions
  <2>3. KeyAt(p)' = KeyAt(<<p[2], p[1]>>)
    BY <1>1, <1>3 DEF KeyAt
  <2> QED  BY <1>1, <2>1, <2>2, <2>3
<1>6. Cleared' /\ OneAtATime'
  BY <1>1, <1>2, <1>3, <1>5 DEF Cleared, OneAtATime
<1>7. LastShown'
  <2> SUFFICES ASSUME ~history.overlapped, history.lines # {}
               PROVE  /\ Headings = IF history'.turned THEN vertical' ELSE horizontal'
                      /\ \A p \in Grid' : cell'[p] = IF KeyAt(p)' \in history.lines THEN KeyAt(p)'
                                                     ELSE NotAvailable
    BY <1>3 DEF LastShown
  <2>1. Headings = IF history'.turned THEN vertical' ELSE horizontal'
    BY <1>1, <1>2, <1>3 DEF LastShown
  <2>2. ASSUME NEW p \in Grid'
        PROVE  cell'[p] = IF KeyAt(p)' \in history.lines THEN KeyAt(p)' ELSE NotAvailable
    BY <1>2, <1>5 DEF LastShown
  <2> QED  BY <2>1, <2>2
<1> QED  BY <1>4, <1>6, <1>7 DEF IndexInv

\* What the window shows and what is under way.
LEMMA IndexStepInv == NoGap /\ IndexInv /\ [IndexNext]_indexVars => IndexInv'
<1> SUFFICES ASSUME NoGap, IndexInv, [IndexNext]_indexVars  PROVE IndexInv'
  OBVIOUS
<1>1. IndexTypeOK /\ Cleared /\ OneAtATime /\ LastShown
  BY DEF IndexInv
<1>2. CASE Ask
  <2>1. /\ window' = window /\ vertical' = vertical /\ horizontal' = horizontal
        /\ pending' = pending + 1 /\ cell' = [p \in Grid |-> NoItem]
        /\ history' = [history EXCEPT !.overlapped = @ \/ pending > 0, !.lines = {}]
    BY <1>2 DEF Ask
  <2>2. /\ history'.lines = {} /\ (~history'.overlapped => ~history.overlapped /\ ~(pending > 0))
        /\ history' \in [lines : SUBSET Instances, overlapped : BOOLEAN, turned : BOOLEAN]
    BY <1>1, <2>1 DEF IndexTypeOK
  <2>3. IndexTypeOK' /\ LastShown'
    BY <1>1, <2>1, <2>2 DEF IndexTypeOK, LastShown
  <2>4. Cleared'
    BY <1>1, <2>1, <2>2 DEF Cleared, Grid
  <2>5. OneAtATime'
    BY <1>1, <2>1, <2>2 DEF OneAtATime, IndexTypeOK
  <2> QED  BY <2>3, <2>4, <2>5 DEF IndexInv
<1>3. CASE NoTable
  <2>1. /\ UNCHANGED <<window, vertical, horizontal, cell, history>>
        /\ pending > 0 /\ pending' = pending - 1
    BY <1>3 DEF NoTable
  <2>2. IndexTypeOK' /\ LastShown'
    BY <1>1, <2>1 DEF IndexTypeOK, LastShown, Grid, KeyAt
  <2>3. Cleared'
    BY <1>1, <2>1 DEF Cleared, Grid
  <2>4. OneAtATime'
    BY <1>1, <2>1 DEF OneAtATime, IndexTypeOK
  <2> QED  BY <2>2, <2>3, <2>4 DEF IndexInv
<1>4. CASE GetTable
  BY <1>4, TableKeeps
<1>5. CASE Transpose
  BY <1>5, TransposeKeeps
<1>6. CASE TransposeNull
  <2>1. /\ UNCHANGED <<vertical, horizontal, cell, pending, history>>
        /\ \E p \in Grid : cell[p] = NoItem
    BY <1>6 DEF TransposeNull
  <2>2. IndexTypeOK' /\ LastShown'
    BY <1>1, <2>1 DEF IndexTypeOK, LastShown, Grid, KeyAt
  <2>3. history.lines = {}
    BY <1>1, <2>1 DEF Cleared
  <2>4. Cleared' /\ OneAtATime'
    BY <1>1, <2>1, <2>3 DEF Cleared, OneAtATime, Grid
  <2> QED  BY <2>2, <2>4 DEF IndexInv
<1>7. CASE CopyOid \/ UNCHANGED indexVars
  <2>1. UNCHANGED <<window, vertical, horizontal, cell, pending, history>>
    BY <1>7 DEF CopyOid, indexVars
  <2> QED  BY <1>1, <2>1 DEF IndexInv, IndexTypeOK, Cleared, OneAtATime, LastShown, Grid, KeyAt
<1> QED  BY <1>2, <1>3, <1>4, <1>5, <1>6, <1>7 DEF IndexNext

\* The window of a walk whose columns are numbered without a gap.
LEMMA WindowShows ==
    ASSUME NoGap, IndexInv
    PROVE  ShowsTheLastWalk
<1>1. IndexTypeOK /\ Cleared /\ OneAtATime /\ LastShown
  BY DEF IndexInv
<1>2. window = "null item" => history.lines = {}
  BY <1>1 DEF Cleared
<1> DEFINE down == IF history.turned THEN horizontal ELSE vertical
<1> SUFFICES ASSUME ~history.overlapped
             PROVE  /\ \A p \in Grid : cell[p] \in Instances => cell[p] = KeyAt(p)
                    /\ history.lines # {} => Shown = {x \in history.lines : x[2] \in ToSet(down)}
  BY <1>2 DEF ShowsTheLastWalk, Under, KeyAt
<1>3. \A p \in Grid : cell[p] \in Instances => cell[p] = KeyAt(p)
  BY <1>1, HeadingsAre DEF Cleared, LastShown
<1>4. ASSUME history.lines # {}
      PROVE  Shown = {x \in history.lines : x[2] \in ToSet(down)}
  <2>1. /\ Headings = IF history.turned THEN vertical ELSE horizontal
        /\ \A p \in Grid : cell[p] = IF KeyAt(p) \in history.lines THEN KeyAt(p) ELSE NotAvailable
    BY <1>1, <1>4 DEF LastShown
  <2>2. history.lines \subseteq Instances /\ down \in Seq(Nat)
        /\ ToSet(down) = {down[r] : r \in 1 .. Len(down)}
    BY <1>1 DEF IndexTypeOK, ToSet
  <2>3. ASSUME NEW p \in Grid
        PROVE  KeyAt(p)[2] \in ToSet(down)
    <3>1. p[1] \in 1 .. Len(vertical) /\ p[2] \in 1 .. Len(horizontal)
      BY DEF Grid, Positions
    <3>2. CASE history.turned
      BY <2>2, <3>1, <3>2 DEF KeyAt
    <3>3. CASE ~history.turned
      BY <2>2, <3>1, <3>3 DEF KeyAt
    <3> QED  BY <3>2, <3>3
  <2>4. ASSUME NEW x \in Shown
        PROVE  x \in history.lines /\ x[2] \in ToSet(down)
    <3>1. PICK p \in Grid : x = cell[p] /\ x \in Instances
      BY DEF Shown
    <3>2. x = KeyAt(p) /\ x \in history.lines
      BY <2>1, <3>1, HeadingsAre
    <3> QED  BY <2>3, <3>2
  <2>5. ASSUME NEW x \in history.lines, x[2] \in ToSet(down)
        PROVE  x \in Shown
    <3>1. x = <<x[1], x[2]>> /\ x[1] \in ToSet(Headings) /\ x \in Instances
      BY <2>2 DEF Instances
    <3>2. PICK c \in 1 .. Len(Headings) : Headings[c] = x[1]
      BY <3>1, HeadingsAre
    <3>3. PICK r \in 1 .. Len(down) : down[r] = x[2]
      BY <2>2, <2>5
    <3>4. \E p \in Grid : KeyAt(p) = x
      <4>1. CASE history.turned
        <5>1. <<c, r>> \in Grid /\ KeyAt(<<c, r>>) = x
          BY <2>1, <3>1, <3>2, <3>3, <4>1 DEF Grid, Positions, KeyAt
        <5> QED  BY <5>1
      <4>2. CASE ~history.turned
        <5>1. <<r, c>> \in Grid /\ KeyAt(<<r, c>>) = x
          BY <2>1, <3>1, <3>2, <3>3, <4>2 DEF Grid, Positions, KeyAt
        <5> QED  BY <5>1
      <4> QED  BY <4>1, <4>2
    <3> QED  BY <2>1, <2>5, <3>1, <3>4 DEF Shown
  <2> QED  BY <2>4, <2>5
<1> QED  BY <1>3, <1>4

\* Whatever tables walks bring, and however often they are turned over, the index
\* window shows the last one under its headings, if its columns are numbered
\* without a gap (indexes.cpp:98 places a value by that number).
THEOREM LastWalkShown == NoGap => (IndexSpec => []ShowsTheLastWalk)
<1> SUFFICES ASSUME NoGap  PROVE IndexSpec => []ShowsTheLastWalk
  OBVIOUS
<1>1. IndexInit => IndexInv
  <2> SUFFICES ASSUME IndexInit  PROVE IndexInv
    OBVIOUS
  <2>1. /\ window = "up" /\ vertical = <<>> /\ horizontal = <<>> /\ pending = 0
        /\ history = [lines |-> {}, overlapped |-> FALSE, turned |-> FALSE]
    BY DEF IndexInit
  <2>2. Grid = {}
    BY <2>1 DEF Grid, Positions
  <2> QED  BY <2>1, <2>2 DEF IndexInv, IndexTypeOK, Cleared, OneAtATime, LastShown
<1>2. IndexInv /\ [IndexNext]_indexVars => IndexInv'
  BY IndexStepInv
<1>3. IndexInv => ShowsTheLastWalk
  BY WindowShows
<1> QED  BY <1>1, <1>2, <1>3, PTL DEF IndexSpec

-----------------------------------------------------------------------------
(* Access control (Vacm).                                                  *)

\* The view is finite and has a family for a subtree only once.
ControlInv ==
    /\ view \subseteq Families /\ IsFiniteSet(view)
    /\ \A f, g \in view : f.subtree = g.subtree => f = g

\* Families are created and destroyed one by one.
LEMMA ControlStepInv == ControlInv /\ [ControlNext]_controlVars => ControlInv'
<1> SUFFICES ASSUME ControlInv, [ControlNext]_controlVars  PROVE ControlInv'
  OBVIOUS
<1>1. CASE UNCHANGED view
  BY <1>1 DEF ControlInv
<1>2. ASSUME NEW f \in Families, CreateView(f)  PROVE ControlInv'
  <2>1. IsFiniteSet(view \cup {f})
    BY FS_AddElement DEF ControlInv
  <2> QED  BY <1>2, <2>1 DEF CreateView, ControlInv
<1>3. ASSUME NEW f \in Families, DestroyView(f)  PROVE ControlInv'
  <2>1. IsFiniteSet(view \ {f})
    BY FS_RemoveElement DEF ControlInv
  <2> QED  BY <1>3, <2>1 DEF DestroyView, ControlInv
<1> QED
  BY <1>1, <1>2, <1>3 DEF ControlNext, CreateAccess, DestroyAccess, controlVars

\* Sequences of one length that differ have a first place where they differ.
LEMMA FirstDifference ==
    ASSUME NEW a \in Seq(Nat), NEW b \in Seq(Nat), Len(a) = Len(b), a # b
    PROVE  \E k \in 1 .. Len(a) : a[k] # b[k] /\ \A l \in 1 .. k - 1 : a[l] = b[l]
<1> DEFINE T == {k \in 1 .. Len(a) : a[k] # b[k]}
<1>1. T # {} /\ T \subseteq Nat
  OBVIOUS
<1>2. PICK k \in T : \A l \in T : k <= l
  <2> HIDE DEF T
  <2> QED  BY <1>1, LeastOf
<1>3. \A l \in 1 .. k - 1 : l \in 1 .. Len(a) /\ ~ (k <= l)
  OBVIOUS
<1> QED  BY <1>2, <1>3

\* netsnmp_view_get prefers one of any two families with different subtrees ...
LEMMA OneIsLonger ==
    ASSUME NEW f \in Families, NEW g \in Families, f.subtree # g.subtree
    PROVE  Longer(f, g) \/ Longer(g, f)
<1> DEFINE a == f.subtree
           b == g.subtree
<1>1. a \in Seq(Nat) /\ b \in Seq(Nat) /\ Len(a) \in Nat /\ Len(b) \in Nat
  BY VacmAssumption
<1>2. CASE Len(a) # Len(b)
  BY <1>1, <1>2 DEF Longer
<1>3. CASE Len(a) = Len(b)
  <2>1. PICK k \in 1 .. Len(a) : a[k] # b[k] /\ \A l \in 1 .. k - 1 : a[l] = b[l]
    BY <1>1, <1>3, FirstDifference
  <2>2. k \in DOMAIN a /\ k \in DOMAIN b /\ a[k] \in Nat /\ b[k] \in Nat
    <3> HIDE DEF a, b
    <3>1. k \in 1 .. Len(a) /\ k \in 1 .. Len(b)
      BY <1>3, <2>1
    <3> QED  BY <1>1, <3>1
  <2>3. a[k] < b[k] \/ b[k] < a[k]
    BY <2>1, <2>2
  <2>4. OidLess(a, b) \/ OidLess(b, a)
    <3> HIDE DEF a, b
    <3> QED  BY <2>1, <2>2, <2>3 DEF OidLess
  <2> QED  BY <1>3, <2>4 DEF Longer
<1> QED  BY <1>2, <1>3

\* ... and this is an order.
LEMMA LongerIsOrder ==
    ASSUME NEW f \in Families, NEW g \in Families, NEW h \in Families
    PROVE  ~Longer(f, f) /\ (Longer(f, g) /\ Longer(g, h) => Longer(f, h))
<1> DEFINE a == f.subtree
           b == g.subtree
           c == h.subtree
<1>1. /\ a \in Seq(Nat) /\ b \in Seq(Nat) /\ c \in Seq(Nat)
      /\ Len(a) \in Nat /\ Len(b) \in Nat /\ Len(c) \in Nat
  BY VacmAssumption
<1>2. ~OidLess(a, a)
  <2>1. \A k \in DOMAIN a : a[k] \in Nat
    BY <1>1
  <2>2. \A k \in DOMAIN a : ~ (a[k] < a[k])
    BY <2>1
  <2> QED  BY <1>1, <2>2 DEF OidLess
<1>3. ASSUME OidLess(b, a), OidLess(c, b), Len(a) = Len(b), Len(b) = Len(c)
      PROVE  OidLess(c, a)
  <2> HIDE DEF a, b, c
  <2>1. PICK k \in DOMAIN a \cap DOMAIN b : b[k] < a[k] /\ \A l \in 1 .. k - 1 : b[l] = a[l]
    BY <1>1, <1>3 DEF OidLess
  <2>2. PICK m \in DOMAIN b \cap DOMAIN c : c[m] < b[m] /\ \A l \in 1 .. m - 1 : c[l] = b[l]
    BY <1>1, <1>3 DEF OidLess
  <2>3. /\ k \in 1 .. Len(a) /\ m \in 1 .. Len(a)
        /\ DOMAIN a = 1 .. Len(a) /\ DOMAIN b = 1 .. Len(a) /\ DOMAIN c = 1 .. Len(a)
        /\ \A l \in 1 .. Len(a) : a[l] \in Nat /\ b[l] \in Nat /\ c[l] \in Nat
    <3>1. \A d \in Seq(Nat) : DOMAIN d = 1 .. Len(d) /\ \A l \in 1 .. Len(d) : d[l] \in Nat
      OBVIOUS
    <3>2. DOMAIN a = 1 .. Len(a) /\ DOMAIN b = 1 .. Len(a) /\ DOMAIN c = 1 .. Len(a)
      BY <1>1, <1>3, <3>1
    <3> QED  BY <1>1, <1>3, <3>1, <3>2
  <2>4. CASE k <= m
    <3>1. c[k] <= b[k] /\ \A l \in 1 .. k - 1 : c[l] = a[l]
      BY <2>1, <2>2, <2>3, <2>4
    <3>2. c[k] < a[k]
      BY <2>1, <2>3, <3>1
    <3> QED  BY <2>3, <3>1, <3>2 DEF OidLess
  <2>5. CASE m < k
    <3>1. b[m] = a[m] /\ \A l \in 1 .. m - 1 : c[l] = a[l]
      BY <2>1, <2>2, <2>3, <2>5
    <3> QED  BY <2>2, <2>3, <3>1 DEF OidLess
  <2> QED  BY <2>3, <2>4, <2>5
<1>4. ~Longer(f, f)
  BY <1>1, <1>2 DEF Longer
<1>5. ASSUME Longer(f, g), Longer(g, h)  PROVE Longer(f, h)
  BY <1>1, <1>3, <1>5 DEF Longer
<1> QED  BY <1>4, <1>5

\* Hence the search for the best family finds one.
LEMMA BestIs ==
    ASSUME ControlInv, NEW T, T \subseteq view, T # {}
    PROVE  BestFamily(T) \in T /\ \A g \in T \ {BestFamily(T)} : Longer(BestFamily(T), g)
<1> DEFINE R == {p \in T \X T : Longer(p[1], p[2])}
<1>1. IsFiniteSet(T) /\ T \subseteq Families
  BY FS_Subset DEF ControlInv
<1>2. \A x, y \in T : <<x, y>> \in R <=> Longer(x, y)
  OBVIOUS
<1> HIDE DEF R
<1>3. \A x, y, z \in T : <<x, y>> \in R /\ <<y, z>> \in R => <<x, z>> \in R
  BY <1>1, <1>2, LongerIsOrder
<1>4. \A x \in T : <<x, x>> \notin R
  BY <1>1, <1>2, LongerIsOrder
<1>5. PICK m \in T : \A x \in T : <<x, m>> \notin R
  BY <1>1, <1>3, <1>4, MinimalOf
<1>6. \A x \in T : ~Longer(x, m)
  BY <1>2, <1>5
<1>7. \A x \in T \ {m} : Longer(m, x)
  BY <1>1, <1>6, OneIsLonger DEF ControlInv
<1> QED  BY <1>7 DEF BestFamily

\* What decides of the OIDs below a subtree decides of the subtree, or is inside it.
LEMMA CoversBelow ==
    ASSUME ControlInv, NEW s \in Subtrees, NEW o \in Deepest, IsPrefix(s, o)
    PROVE  /\ Covering(o) \subseteq Covering(s) \cup Inside(s)
           /\ Covering(s) \subseteq Covering(o)
<1>1. /\ s \in Seq(Nat) /\ o \in Seq(Nat) /\ Len(s) <= Len(o)
      /\ SubSeq(s, 1, Len(s)) = SubSeq(o, 1, Len(s))
  BY VacmAssumption DEF IsPrefix
<1>2. ASSUME NEW k \in 1 .. Len(s)  PROVE k \in DOMAIN s /\ k \in DOMAIN o /\ s[k] = o[k]
  <2>1. SubSeq(s, 1, Len(s))[k] = s[k] /\ SubSeq(o, 1, Len(s))[k] = o[k]
    BY <1>1
  <2> QED  BY <1>1, <2>1
<1>3. ASSUME NEW f \in view
      PROVE  /\ f.subtree \in Seq(Nat) /\ Len(f.subtree) \in Nat
             /\ Len(f.subtree) <= Len(o) /\ DOMAIN f.subtree = 1 .. Len(f.subtree)
  BY VacmAssumption DEF ControlInv
<1>4. ASSUME NEW f \in Covering(o)  PROVE f \in Covering(s) \cup Inside(s)
  <2>1. f \in view /\ Agrees(f, o)
    BY DEF Covering
  <2>2. Agrees(f, s)
    BY <1>1, <1>2, <2>1 DEF Agrees
  <2> QED  BY <1>1, <1>3, <2>1, <2>2 DEF Covering, Inside
<1>5. ASSUME NEW f \in Covering(s)  PROVE f \in Covering(o)
  <2>1. f \in view /\ Agrees(f, s) /\ Len(f.subtree) <= Len(s)
    BY DEF Covering
  <2>2. DOMAIN f.subtree \subseteq 1 .. Len(s)
    <3> DEFINE own == f.subtree
    <3>1. own \in Seq(Nat) /\ Len(own) <= Len(s) /\ Len(s) \in Nat
      BY <1>1, <1>3, <2>1
    <3> HIDE DEF own
    <3>2. DOMAIN own \subseteq 1 .. Len(s)
      BY <3>1
    <3> QED  BY <3>2 DEF own
  <2>3. Agrees(f, o)
    BY <1>2, <2>1, <2>2 DEF Agrees
  <2> QED  BY <1>3, <2>1, <2>3 DEF Covering
<1> QED  BY <1>4, <1>5

\* The verdict over a subtree is that of each OID below it.
LEMMA VerdictFollows == ControlInv => VerdictHolds
<1> SUFFICES ASSUME ControlInv, NEW s \in Subtrees, NEW o \in Deepest, IsPrefix(s, o)
             PROVE  /\ SubtreeCheck(s) = "success" => InView(o)
                    /\ SubtreeCheck(s) = "notInView" => ~InView(o)
  BY DEF VerdictHolds
<1> DEFINE shorter == Covering(s)
           longer == {f.included : f \in Inside(s)}
           covered == shorter # {} /\ BestFamily(shorter).included
<1>1. /\ Covering(o) \subseteq shorter \cup Inside(s)
      /\ shorter \subseteq Covering(o) /\ Covering(o) \subseteq view /\ shorter \subseteq view
  BY CoversBelow DEF Covering
<1>2. CASE Covering(o) = {}
  <2>1. ~InView(o) /\ shorter = {}
    BY <1>1, <1>2 DEF InView
  <2> QED  BY <2>1 DEF SubtreeCheck
<1>3. CASE Covering(o) # {}
  <2> DEFINE best == BestFamily(Covering(o))
  <2>1. best \in Covering(o) /\ \A g \in Covering(o) \ {best} : Longer(best, g)
    BY <1>1, <1>3, BestIs
  <2>2. InView(o) <=> best.included
    BY <1>3 DEF InView
  <2> HIDE DEF best
  <2>3. CASE best \in shorter
    <3>1. BestFamily(shorter) \in shorter
          /\ \A g \in shorter \ {BestFamily(shorter)} : Longer(BestFamily(shorter), g)
      BY <1>1, <2>3, BestIs
    <3>2. BestFamily(shorter) = best
      <4> SUFFICES ASSUME BestFamily(shorter) # best  PROVE FALSE
        OBVIOUS
      <4>1. Longer(BestFamily(shorter), best) /\ Longer(best, BestFamily(shorter))
        BY <1>1, <2>1, <2>3, <3>1
      <4>2. best \in Families /\ BestFamily(shorter) \in Families
        BY <1>1, <2>3, <3>1 DEF ControlInv
      <4> QED  BY <4>1, <4>2, LongerIsOrder
    <3> QED  BY <2>2, <2>3, <3>2 DEF SubtreeCheck
  <2>4. CASE best \notin shorter
    <3>1. best \in Inside(s)
      BY <1>1, <2>1, <2>4
    <3>2. best.included \in longer
      BY <3>1
    <3>3. SubtreeCheck(s) # "unknown" => longer = {covered}
      BY <3>2 DEF SubtreeCheck
    <3> QED  BY <2>2, <3>2, <3>3 DEF SubtreeCheck
  <2> QED  BY <2>3, <2>4
<1> QED  BY <1>2, <1>3

\* What netsnmp_view_subtree_check says of a subtree is what netsnmp_view_get says
\* of each OID below it, for any families with any masks, created and destroyed in
\* any order.
THEOREM VerdictOnSubtree == ControlSpec => []VerdictHolds
<1>1. ControlInit => ControlInv
  BY FS_EmptySet DEF ControlInit, ControlInv
<1> QED  BY <1>1, ControlStepInv, VerdictFollows, PTL DEF ControlSpec

-----------------------------------------------------------------------------
(* The panel.                                                              *)

Lines == [clause : Clauses, number : Nat, words : SUBSET Keywords]
Essential == {"SYNTAX", "MAX-ACCESS", "STATUS"}

\* What is known of the lines of a text: a line with the type, the access or the
\* status has its keyword alone; the description begins with its first line, and
\* what comes behind it has no field.
TextOrder(text) ==
    /\ \A a \in 1 .. Len(text) : text[a].clause \in Essential => text[a].words = {text[a].clause}
    /\ \A a \in 1 .. Len(text) : text[a].clause # "DESCRIPTION" => text[a].number = 1
    /\ \A a, b \in 1 .. Len(text) :
           a < b /\ text[a].clause = "DESCRIPTION" =>
               /\ text[b].clause \in {"DESCRIPTION", "DEFVAL", "value"}
               /\ text[b].clause = "DESCRIPTION" => text[b].number # 1
    /\ \A b \in 1 .. Len(text) :
           text[b].clause = "DESCRIPTION" /\ text[b].number # 1 =>
               \E a \in 1 .. Len(text) : a < b /\ text[a].clause = "DESCRIPTION"

\* How many lines have been read, and which.
Read == Len(node) - Len(lines)
ReadLines == SubSeq(node, 1, Read)

NodeTypeOK ==
    /\ node \in Seq(Lines) /\ TextOrder(node)
    /\ lines \in Seq(Lines) /\ Len(lines) <= Len(node)
    /\ \A a \in 1 .. Len(lines) : lines[a] = node[Read + a]
    /\ currentString \in Keywords \cup {"none"}
    /\ tmp \in Seq(Lines)
    /\ field \in [Keywords -> Seq(Lines)]

\* The headings that were read are in their fields.
HeadingsRead ==
    \A a \in 1 .. Read : node[a].clause \in Essential =>
        \E b \in 1 .. Len(field[node[a].clause]) : field[node[a].clause][b] = node[a]

\* Each field holds what was read of its clause; only from the description
\* something may wait that has a field.
FieldsRead ==
    /\ \A k \in Keywords : Of(field[k], Keywords) = Of(ReadLines, {k})
    /\ currentString # "DESCRIPTION" => \A a \in 1 .. Len(tmp) : tmp[a].clause \notin Keywords
    /\ currentString = "DESCRIPTION" <=> \E a \in 1 .. Read : node[a].clause = "DESCRIPTION"

NodeInv == NodeTypeOK /\ HeadingsRead /\ (Quiet => FieldsRead)

\* The clauses, one by one.
LEMMA ClausesAre ==
    /\ Len(ClausesBefore) = 8 /\ Len(ClausesBehind) = 2
    /\ \A a \in 1 .. 8 : ClausesBefore[a] \in Clauses \ {"DESCRIPTION", "DEFVAL", "value"}
    /\ \A a \in 1 .. 2 : ClausesBehind[a] \in {"DEFVAL", "value"}
    /\ {"DESCRIPTION", "DEFVAL", "value"} \subseteq Clauses
<1>1. /\ Len(ClausesBefore) = 8 /\ Len(ClausesBehind) = 2
      /\ DOMAIN ClausesBefore = 1 .. 8 /\ DOMAIN ClausesBehind = 1 .. 2
  BY DEF ClausesBefore, ClausesBehind
<1>2. \A a \in 1 .. 8 : ClausesBefore[a] \notin {"DESCRIPTION", "DEFVAL", "value"}
  <2>1. /\ ClausesBefore[1] = "label" /\ ClausesBefore[2] = "FROM"
        /\ ClausesBefore[3] = "TEXTUAL-CONVENTION" /\ ClausesBefore[4] = "SYNTAX"
        /\ ClausesBefore[5] = "UNITS" /\ ClausesBefore[6] = "MAX-ACCESS"
        /\ ClausesBefore[7] = "STATUS" /\ ClausesBefore[8] = "INDEX"
    BY DEF ClausesBefore
  <2> QED  BY <2>1
<1>3. \A a \in 1 .. 2 : ClausesBehind[a] \in {"DEFVAL", "value"}
  BY DEF ClausesBehind
<1>4. /\ \A a \in 1 .. 8 : ClausesBefore[a] \in ToSet(ClausesBefore)
      /\ ClausesBehind[1] \in ToSet(ClausesBehind) /\ ClausesBehind[2] \in ToSet(ClausesBehind)
  BY <1>1 DEF ToSet
<1>5. ClausesBehind[1] = "DEFVAL" /\ ClausesBehind[2] = "value"
  BY DEF ClausesBehind
<1> QED  BY <1>1, <1>2, <1>3, <1>4, <1>5 DEF Clauses

\* The lines of a clause are a part of a text, in its order.
LEMMA OfIs ==
    ASSUME NEW text \in Seq(Lines), NEW clauses
    PROVE  /\ Of(text, clauses) \in Seq(Lines)
           /\ IsChosen(Of(text, clauses), text, Len(text),
                       {k \in 1 .. Len(text) : text[k].clause \in clauses})
  BY ChosenIs DEF Of

LEMMA OfAppend ==
    ASSUME NEW s \in Seq(Lines), NEW x \in Lines, NEW clauses
    PROVE  Of(Append(s, x), clauses) =
               IF x.clause \in clauses THEN Append(Of(s, clauses), x) ELSE Of(s, clauses)
<1> DEFINE t == Append(s, x)
           P == {k \in 1 .. Len(s) : s[k].clause \in clauses}
           Q == {k \in 1 .. Len(t) : t[k].clause \in clauses}
<1>1. t \in Seq(Lines) /\ Len(t) = Len(s) + 1 /\ t[Len(t)] = x
      /\ \A a \in 1 .. Len(s) : t[a] = s[a]
  OBVIOUS
<1>2. Len(s) \in Nat
  OBVIOUS
<1>3. \A a \in 1 .. Len(s) : a \in P <=> a \in Q
  BY <1>1, <1>2
<1>4. CASE x.clause \in clauses
  <2>1. Len(s) + 1 \in Q
    BY <1>1, <1>2, <1>4
  <2> HIDE DEF P, Q
  <2>2. Chosen(Append(s, x), Q) = Append(Chosen(s, P), x)
    BY <1>3, <2>1, ChosenMore
  <2> QED  BY <1>4, <2>2 DEF Of, P, Q
<1>5. CASE x.clause \notin clauses
  <2>1. \A a \in Len(s) + 1 .. Len(t) : a \notin Q
    BY <1>1, <1>2, <1>5
  <2> HIDE DEF P, Q, t
  <2>2. Chosen(t, Q) = Chosen(s, P)
    BY <1>1, <1>2, <1>3, <2>1, ChosenSame
  <2> QED  BY <1>5, <2>2 DEF Of, P, Q, t
<1> QED  BY <1>4, <1>5

LEMMA OfConcat ==
    ASSUME NEW s \in Seq(Lines), NEW t \in Seq(Lines), NEW clauses,
           \A a \in 1 .. Len(t) : t[a].clause \notin clauses
    PROVE  Of(s \o t, clauses) = Of(s, clauses)
<1> DEFINE u == s \o t
           P == {k \in 1 .. Len(s) : s[k].clause \in clauses}
           Q == {k \in 1 .. Len(u) : u[k].clause \in clauses}
<1>1. Len(s) \in Nat /\ Len(t) \in Nat
  OBVIOUS
<1>2. u \in Seq(Lines) /\ Len(u) = Len(s) + Len(t)
      /\ \A a \in 1 .. Len(s) + Len(t) : u[a] = IF a <= Len(s) THEN s[a] ELSE t[a - Len(s)]
  BY <1>1, ConcatProperties
<1> HIDE DEF u
<1>3. \A a \in 1 .. Len(s) : a \in P <=> a \in Q
  BY <1>1, <1>2
<1>4. ASSUME NEW a \in Len(s) + 1 .. Len(u)  PROVE a \notin Q
  <2> DEFINE m == Len(s)  n == Len(t)
  <2>1. m \in Nat /\ n \in Nat /\ a \in m + 1 .. m + n
    BY <1>1, <1>2
  <2>2. u[a] = t[a - m]
    BY <1>2, <2>1
  <2> HIDE DEF m, n
  <2>3. a - m \in 1 .. n
    BY <2>1
  <2>4. u[a] = t[a - m] /\ a - m \in 1 .. Len(t)
    BY <2>2, <2>3 DEF n
  <2> QED  BY <2>4
<1> HIDE DEF P, Q
<1>5. Chosen(u, Q) = Chosen(s, P)
  BY <1>1, <1>2, <1>3, <1>4, ChosenSame
<1> QED  BY <1>5 DEF Of, P, Q, u

\* A text that lacks nothing is in order.
LEMMA CompleteIs ==
    ASSUME NEW mention \in [Free -> [1 .. MaxLines -> SUBSET Keywords]],
           NEW length \in 1 .. MaxLines
    PROVE  LET all == Complete(mention, length)
           IN  all \in Seq(Lines) /\ TextOrder(all)
<1> DEFINE before == [k \in 1 .. Len(ClausesBefore) |-> Line(ClausesBefore[k], 1, mention)]
           within == [k \in 1 .. length |-> Line("DESCRIPTION", k, mention)]
           behind == [k \in 1 .. Len(ClausesBehind) |-> Line(ClausesBehind[k], 1, mention)]
           all == Complete(mention, length)
<1>0. MaxLines \in Nat /\ 1 \in 1 .. MaxLines /\ length \in Nat /\ length >= 1
  BY MibNodeAssumption
<1>1. ASSUME NEW clause \in Clauses, NEW k \in 1 .. MaxLines
      PROVE  /\ Line(clause, k, mention) \in Lines
             /\ Line(clause, k, mention).clause = clause /\ Line(clause, k, mention).number = k
             /\ clause \in Essential /\ k = 1 => Line(clause, k, mention).words = {clause}
  <2>1. clause \in Free => mention[clause][k] \in SUBSET Keywords
    OBVIOUS
  <2>2. clause \in Essential => clause \notin Free /\ clause \in Keywords
    BY DEF Essential, Free, Keywords
  <2> QED  BY <1>0, <2>1, <2>2 DEF Line, Lines
<1>2. /\ before \in Seq(Lines) /\ Len(before) = 8
      /\ \A a \in 1 .. 8 : before[a] = Line(ClausesBefore[a], 1, mention)
  BY <1>0, <1>1, ClausesAre
<1>3. /\ within \in Seq(Lines) /\ Len(within) = length
      /\ \A a \in 1 .. length : within[a] = Line("DESCRIPTION", a, mention)
  <2>1. \A a \in 1 .. length : a \in 1 .. MaxLines /\ "DESCRIPTION" \in Clauses
    BY <1>0, ClausesAre
  <2> QED  BY <1>0, <1>1, <2>1
<1>4. /\ behind \in Seq(Lines) /\ Len(behind) = 2
      /\ \A a \in 1 .. 2 : behind[a] = Line(ClausesBehind[a], 1, mention)
  <2>1. \A a \in 1 .. 2 : ClausesBehind[a] \in Clauses
    BY ClausesAre
  <2> QED  BY <1>0, <1>1, <2>1, ClausesAre
<1>5. all = (before \o within) \o behind
  BY DEF Complete
<1> HIDE DEF before, within, behind, all
<1>6. /\ all \in Seq(Lines) /\ Len(all) = 10 + length
      /\ \A a \in 1 .. 8 : all[a] = before[a]
      /\ \A a \in 9 .. 8 + length : all[a] = within[a - 8]
      /\ \A a \in 9 + length .. 10 + length : all[a] = behind[a - 8 - length]
  <2> DEFINE front == before \o within
  <2>1. /\ front \in Seq(Lines) /\ Len(front) = 8 + length
        /\ \A a \in 1 .. 8 : front[a] = before[a]
        /\ \A a \in 9 .. 8 + length : front[a] = within[a - 8]
    <3>1. /\ front \in Seq(Lines) /\ Len(front) = Len(before) + Len(within)
          /\ \A p \in 1 .. Len(before) + Len(within) :
                 front[p] = IF p <= Len(before) THEN before[p] ELSE within[p - Len(before)]
      BY <1>2, <1>3, ConcatProperties
    <3> HIDE DEF front
    <3>2. Len(before) = 8 /\ Len(within) = length
      BY <1>2, <1>3
    <3>3. /\ front \in Seq(Lines) /\ Len(front) = 8 + length
          /\ \A p \in 1 .. 8 + length : front[p] = IF p <= 8 THEN before[p] ELSE within[p - 8]
      BY <3>1, <3>2
    <3>4. ASSUME NEW a \in 1 .. 8  PROVE front[a] = before[a]
      <4>1. a \in 1 .. 8 + length /\ a <= 8
        BY <1>0
      <4> QED  BY <3>3, <4>1
    <3>5. ASSUME NEW a \in 9 .. 8 + length  PROVE front[a] = within[a - 8]
      <4>1. a \in 1 .. 8 + length /\ ~(a <= 8)
        BY <1>0
      <4> QED  BY <3>3, <4>1
    <3> QED  BY <3>3, <3>4, <3>5
  <2> HIDE DEF front
  <2>2. /\ all \in Seq(Lines) /\ Len(all) = 10 + length
        /\ \A a \in 1 .. 8 + length : all[a] = front[a]
        /\ \A a \in 9 + length .. 10 + length : all[a] = behind[a - (8 + length)]
    <3>1. all = front \o behind
      BY <1>5 DEF front
    <3>2. /\ all \in Seq(Lines) /\ Len(all) = Len(front) + Len(behind)
          /\ \A p \in 1 .. Len(front) + Len(behind) :
                 all[p] = IF p <= Len(front) THEN front[p] ELSE behind[p - Len(front)]
      BY <1>4, <2>1, <3>1, ConcatProperties
    <3>3. Len(front) = 8 + length /\ Len(behind) = 2
      BY <1>4, <2>1
    <3>4. /\ all \in Seq(Lines) /\ Len(all) = (8 + length) + 2
          /\ \A p \in 1 .. (8 + length) + 2 :
                 all[p] = IF p <= 8 + length THEN front[p] ELSE behind[p - (8 + length)]
      BY <3>2, <3>3
    <3> QED  BY <1>0, <3>4
  <2>3. \A a \in 9 + length .. 10 + length : a - (8 + length) = a - 8 - length
    BY <1>0
  <2>4. \A a \in 9 + length .. 10 + length : all[a] = behind[a - 8 - length]
    BY <2>2, <2>3
  <2>5. ASSUME NEW a \in 1 .. 8  PROVE all[a] = before[a]
    <3>1. a \in 1 .. 8 + length
      BY <1>0
    <3> QED  BY <2>1, <2>2, <3>1
  <2>6. ASSUME NEW a \in 9 .. 8 + length  PROVE all[a] = within[a - 8]
    <3>1. a \in 1 .. 8 + length
      BY <1>0
    <3> QED  BY <2>1, <2>2, <3>1
  <2> QED  BY <2>2, <2>4, <2>5, <2>6
<1>7. ASSUME NEW a \in 1 .. 8
      PROVE  /\ all[a].clause \notin {"DESCRIPTION", "DEFVAL", "value"} /\ all[a].number = 1
             /\ all[a].clause \in Essential => all[a].words = {all[a].clause}
  <2>1. ClausesBefore[a] \in Clauses \ {"DESCRIPTION", "DEFVAL", "value"}
    BY ClausesAre
  <2>2. all[a] = Line(ClausesBefore[a], 1, mention)
    BY <1>2, <1>6
  <2> QED  BY <1>0, <1>1, <2>1, <2>2
<1>8. ASSUME NEW a \in 9 .. 8 + length
      PROVE  all[a].clause = "DESCRIPTION" /\ all[a].number = a - 8
  <2>1. a - 8 \in 1 .. length /\ a - 8 \in 1 .. MaxLines /\ "DESCRIPTION" \in Clauses
    BY <1>0, ClausesAre
  <2>2. all[a] = Line("DESCRIPTION", a - 8, mention)
    BY <1>3, <1>6, <2>1
  <2> QED  BY <1>1, <2>1, <2>2
<1>9. ASSUME NEW a \in 9 + length .. 10 + length
      PROVE  all[a].clause \in {"DEFVAL", "value"} /\ all[a].number = 1
  <2>1. a - 8 - length \in 1 .. 2
    BY <1>0
  <2>2. all[a] = Line(ClausesBehind[a - 8 - length], 1, mention)
    BY <1>4, <1>6, <2>1
  <2>3. ClausesBehind[a - 8 - length] \in {"DEFVAL", "value"} \cap Clauses
    BY <2>1, ClausesAre
  <2> QED  BY <1>0, <1>1, <2>2, <2>3
<1>10. \A a \in 1 .. Len(all) :
           \/ a \in 1 .. 8 \/ a \in 9 .. 8 + length \/ a \in 9 + length .. 10 + length
  BY <1>0, <1>6
<1>11. Essential \cap {"DESCRIPTION", "DEFVAL", "value"} = {}
  BY DEF Essential
<1>12. \A a \in 1 .. Len(all) :
           /\ all[a].clause \in Essential => all[a].words = {all[a].clause}
           /\ all[a].clause # "DESCRIPTION" => all[a].number = 1
           /\ all[a].clause = "DESCRIPTION" => a \in 9 .. 8 + length /\ all[a].number = a - 8
  BY <1>7, <1>8, <1>9, <1>10, <1>11
<1>13. ASSUME NEW a \in 1 .. Len(all), NEW b \in 1 .. Len(all), a < b,
              all[a].clause = "DESCRIPTION"
       PROVE  /\ all[b].clause \in {"DESCRIPTION", "DEFVAL", "value"}
              /\ all[b].clause = "DESCRIPTION" => all[b].number # 1
  <2>1. a \in 9 .. 8 + length
    BY <1>12, <1>13
  <2>2. b \notin 1 .. 8 /\ b - 8 # 1
    BY <1>0, <1>13, <2>1
  <2> QED  BY <1>8, <1>9, <1>10, <1>12, <2>2
<1>14. ASSUME NEW b \in 1 .. Len(all), all[b].clause = "DESCRIPTION", all[b].number # 1
       PROVE  \E a \in 1 .. Len(all) : a < b /\ all[a].clause = "DESCRIPTION"
  <2>1. b \in 9 .. 8 + length /\ b - 8 # 1
    BY <1>12, <1>14
  <2>2. 9 \in 1 .. Len(all) /\ 9 \in 9 .. 8 + length /\ 9 < b
    BY <1>0, <1>6, <2>1
  <2> QED  BY <1>8, <2>2
<1> QED  BY <1>6, <1>12, <1>13, <1>14 DEF TextOrder, all

\* ... and one that lacks some clauses is in order too.
LEMMA TextsAre ==
    ASSUME NEW text \in Texts
    PROVE  text \in Seq(Lines) /\ TextOrder(text)
<1>1. PICK clauses \in ClauseSets, mention \in FreeTexts, length \in 1 .. MaxLines :
          text = Written(clauses, mention, length)
  BY DEF Texts
<1>2. mention \in [Free -> [1 .. MaxLines -> SUBSET Keywords]]
  BY <1>1, MibNodeAssumption DEF FreeTexts
<1> DEFINE all == Complete(mention, length)
           P == {k \in 1 .. Len(all) : all[k].clause \in clauses}
<1>3. all \in Seq(Lines) /\ TextOrder(all)
  BY <1>2, CompleteIs
<1>4. text = Of(all, clauses)
  BY <1>1 DEF Written
<1> HIDE DEF all
<1>5. text \in Seq(Lines) /\ IsChosen(text, all, Len(all), P)
  BY <1>3, <1>4, OfIs
<1>6. PICK place \in [1 .. Len(text) -> 1 .. Len(all)] :
        /\ \A a, b \in 1 .. Len(text) : a < b => place[a] < place[b]
        /\ \A a \in 1 .. Len(text) : text[a] = all[place[a]] /\ place[a] \in P
        /\ \A h \in 1 .. Len(all) : h \in P => \E a \in 1 .. Len(text) : place[a] = h
  BY <1>5 DEF IsChosen
<1>7. \A a \in 1 .. Len(text) :
          /\ text[a].clause \in Essential => text[a].words = {text[a].clause}
          /\ text[a].clause # "DESCRIPTION" => text[a].number = 1
  BY <1>3, <1>6 DEF TextOrder
<1>8. ASSUME NEW a \in 1 .. Len(text), NEW b \in 1 .. Len(text), a < b,
             text[a].clause = "DESCRIPTION"
      PROVE  /\ text[b].clause \in {"DESCRIPTION", "DEFVAL", "value"}
             /\ text[b].clause = "DESCRIPTION" => text[b].number # 1
  <2>1. /\ place[a] \in 1 .. Len(all) /\ place[b] \in 1 .. Len(all) /\ place[a] < place[b]
        /\ text[a] = all[place[a]] /\ text[b] = all[place[b]]
    BY <1>6, <1>8
  <2> QED  BY <1>3, <1>8, <2>1 DEF TextOrder
<1>9. ASSUME NEW b \in 1 .. Len(text), text[b].clause = "DESCRIPTION", text[b].number # 1
      PROVE  \E a \in 1 .. Len(text) : a < b /\ text[a].clause = "DESCRIPTION"
  <2>1. place[b] \in 1 .. Len(all) /\ text[b] = all[place[b]] /\ place[b] \in P
    BY <1>6
  <2>2. PICK h \in 1 .. Len(all) : h < place[b] /\ all[h].clause = "DESCRIPTION"
    BY <1>3, <1>9, <2>1 DEF TextOrder
  <2>3. h \in P
    BY <1>9, <2>1, <2>2
  <2>4. PICK a \in 1 .. Len(text) : place[a] = h
    BY <1>6, <2>3
  <2>5. a < b
    <3>1. a = b => place[a] = place[b]
      OBVIOUS
    <3>2. b < a => place[b] < place[a]
      BY <1>6
    <3>3. a \in Nat /\ b \in Nat /\ h \in Nat /\ place[b] \in Nat
      BY <2>1, <2>2
    <3> QED  BY <2>2, <2>4, <3>1, <3>2, <3>3
  <2> QED  BY <1>6, <2>2, <2>4, <2>5
<1> QED  BY <1>5, <1>7, <1>8, <1>9 DEF TextOrder

\* One of the keywords of a line decides.
LEMMA DecidingIs ==
    ASSUME NEW line \in Lines, line.words # {}
    PROVE  Deciding(line) \in line.words /\ Deciding(line) \in Keywords
<1>1. /\ DOMAIN Priority = 1 .. 5
      /\ \A k \in Keywords : \E a \in 1 .. 5 : Priority[a] = k
      /\ \A a \in 1 .. 5 : Priority[a] \in Keywords
  BY DEF Priority, Keywords
<1> DEFINE T == {a \in 1 .. 5 : Priority[a] \in line.words}
<1>2. T # {} /\ T \subseteq Nat
  BY <1>1 DEF Lines
<1>3. PICK a \in T : \A b \in T : a <= b
  <2> HIDE DEF T
  <2> QED  BY <1>2, LeastOf
<1>4. a \in DOMAIN Priority /\ Priority[a] \in line.words
      /\ \A b \in 1 .. a - 1 : Priority[b] \notin line.words
  BY <1>1, <1>3
<1> DEFINE first == CHOOSE p \in DOMAIN Priority :
                       /\ Priority[p] \in line.words
                       /\ \A h \in 1 .. p - 1 : Priority[h] \notin line.words
<1>5. first \in DOMAIN Priority /\ Priority[first] \in line.words
  BY <1>4
<1> QED  BY <1>1, <1>5 DEF Deciding

\* The next line.
LEMMA NextLine ==
    ASSUME NodeTypeOK, lines # <<>>, lines' = Tail(lines), node' = node
    PROVE  /\ Read \in Nat /\ Read + 1 <= Len(node) /\ Read' = Read + 1
           /\ Head(lines) = node[Read + 1] /\ Head(lines) \in Lines
           /\ lines' \in Seq(Lines) /\ Len(lines') <= Len(node)
           /\ \A a \in 1 .. Len(lines') : lines'[a] = node[Read' + a]
           /\ ReadLines \in Seq(Lines)
           /\ ReadLines' = Append(ReadLines, Head(lines))
<1>0. /\ node \in Seq(Lines) /\ lines \in Seq(Lines) /\ Len(lines) <= Len(node)
      /\ \A a \in 1 .. Len(lines) : lines[a] = node[Read + a]
  BY DEF NodeTypeOK
<1>1. /\ Len(node) \in Nat /\ Len(lines) \in Nat /\ Len(lines) >= 1 /\ Len(lines) <= Len(node)
      /\ Len(lines') = Len(lines) - 1 /\ lines' \in Seq(Lines)
      /\ Head(lines) = lines[1] /\ Head(lines) \in Lines
      /\ \A a \in 1 .. Len(lines') : lines'[a] = lines[a + 1]
  BY <1>0, HeadTailProperties
<1>2. Read \in Nat /\ Read + 1 <= Len(node) /\ Read' = Read + 1 /\ Read = Len(node) - Len(lines)
  BY <1>1 DEF Read
<1>3. Head(lines) = node[Read + 1]
  BY <1>0, <1>1
<1>4. ASSUME NEW a \in 1 .. Len(lines')  PROVE lines'[a] = node[Read' + a]
  <2>1. a + 1 \in 1 .. Len(lines) /\ lines'[a] = lines[a + 1] /\ Read + (a + 1) = Read' + a
    BY <1>1, <1>2
  <2> QED  BY <1>0, <2>1
<1>5. ReadLines \in Seq(Lines) /\ ReadLines' = Append(ReadLines, Head(lines))
  <2> DEFINE r == Read
  <2>1. ReadLines' = SubSeq(node, 1, r + 1) /\ ReadLines = SubSeq(node, 1, r)
    BY <1>2 DEF ReadLines
  <2>2. node \in Seq(Lines) /\ r \in Nat /\ r + 1 \in 1 .. Len(node) /\ Head(lines) = node[r + 1]
    BY <1>0, <1>1, <1>2, <1>3
  <2> HIDE DEF r
  <2>3. SubSeq(node, 1, r + 1) = Append(SubSeq(node, 1, r), node[r + 1])
    <3>1. /\ SubSeq(node, 1, r) \in Seq(Lines) /\ Len(SubSeq(node, 1, r)) = r
          /\ SubSeq(node, 1, r + 1) \in Seq(Lines) /\ Len(SubSeq(node, 1, r + 1)) = r + 1
      BY <2>2
    <3> QED  BY <2>2, <3>1
  <2> QED  BY <2>1, <2>2, <2>3
<1> QED  BY <1>1, <1>2, <1>3, <1>4, <1>5

\* A text is there and nothing of it is read.
LEMMA NodeStart == NodeInit => NodeInv
<1> SUFFICES ASSUME NodeInit  PROVE NodeInv
  OBVIOUS
<1>1. node \in Seq(Lines) /\ TextOrder(node)
  BY TextsAre DEF NodeInit
<1>0. lines = node /\ tmp = <<>> /\ currentString = "none" /\ field = [k \in Keywords |-> <<>>]
  BY DEF NodeInit
<1>2. Read = 0 /\ Len(node) \in Nat
  BY <1>0, <1>1 DEF Read
<1>3. <<>> \in Seq(Lines) /\ Len(<<>>) = 0
  OBVIOUS
<1>4. /\ field \in [Keywords -> Seq(Lines)] /\ \A k \in Keywords : field[k] = <<>>
      /\ tmp = <<>> /\ currentString = "none"
  BY <1>0, <1>3
<1>5. NodeTypeOK
  <2>1. \A a \in 1 .. Len(lines) : lines[a] = node[Read + a]
    BY <1>0, <1>2
  <2> QED  BY <1>0, <1>1, <1>2, <1>3, <1>4, <2>1 DEF NodeTypeOK
<1>6. HeadingsRead
  BY <1>2 DEF HeadingsRead
<1>7. ReadLines = <<>>
  BY <1>1, <1>2 DEF ReadLines
<1>8. \A clauses : Of(<<>>, clauses) = <<>>
  <2> SUFFICES ASSUME NEW clauses  PROVE Of(<<>>, clauses) = <<>>
    OBVIOUS
  <2> DEFINE P == {k \in 1 .. Len(<<>>) : <<>>[k].clause \in clauses}
  <2>1. PICK f : Gathers(f, <<>>, P, Lines) /\ Chosen(<<>>, P) = f[Len(<<>>)]
    <3> HIDE DEF P
    <3> QED  BY <1>3, ChosenUnfolds
  <2> QED  BY <1>3, <2>1 DEF Of, Gathers
<1>9. FieldsRead
  <2>1. \A k \in Keywords : Of(field[k], Keywords) = Of(ReadLines, {k})
    BY <1>4, <1>7, <1>8
  <2>2. currentString # "DESCRIPTION" => \A a \in 1 .. Len(tmp) : tmp[a].clause \notin Keywords
    BY <1>3, <1>4
  <2>3. currentString = "DESCRIPTION" <=> \E a \in 1 .. Read : node[a].clause = "DESCRIPTION"
    BY <1>2, <1>4
  <2> QED  BY <2>1, <2>2, <2>3 DEF FieldsRead
<1> QED  BY <1>5, <1>6, <1>9 DEF NodeInv

\* What a line without a field brings into play.
LEMMA QuietLine ==
    ASSUME NodeTypeOK, Quiet, FieldsRead, NEW line \in Lines, Read + 1 \in 1 .. Len(node),
           Read \in Nat, line = node[Read + 1]
    PROVE  /\ line.words # {} => /\ line.words = {line.clause} /\ line.clause \in Keywords
                                 /\ currentString # "DESCRIPTION"
           /\ line.words = {} /\ line.clause \in Keywords =>
                  line.clause = "DESCRIPTION" /\ currentString = "DESCRIPTION"
           /\ currentString = "DESCRIPTION" => line.clause \in {"DESCRIPTION", "DEFVAL", "value"}
<1>1. line \in ToSet(node)
  BY DEF ToSet, NodeTypeOK
<1>2. line.words = IF line.number = 1 THEN {line.clause} \cap Keywords ELSE {}
  BY <1>1 DEF Quiet
<1>3. TextOrder(node) /\ Len(node) \in Nat
  BY DEF NodeTypeOK
<1>4. currentString = "DESCRIPTION" =>
          /\ line.clause \in {"DESCRIPTION", "DEFVAL", "value"}
          /\ line.clause = "DESCRIPTION" => line.number # 1
  <2> SUFFICES ASSUME currentString = "DESCRIPTION"
               PROVE  /\ line.clause \in {"DESCRIPTION", "DEFVAL", "value"}
                      /\ line.clause = "DESCRIPTION" => line.number # 1
    OBVIOUS
  <2>1. PICK a \in 1 .. Read : node[a].clause = "DESCRIPTION"
    BY DEF FieldsRead
  <2>2. a \in 1 .. Len(node) /\ a < Read + 1
    BY <1>3
  <2> QED  BY <1>3, <2>1, <2>2 DEF TextOrder
<1>5. {"DEFVAL", "value"} \cap Keywords = {}
  BY DEF Keywords
<1>6. ASSUME line.words # {}
      PROVE  /\ line.words = {line.clause} /\ line.clause \in Keywords
             /\ currentString # "DESCRIPTION"
  BY <1>2, <1>4, <1>5, <1>6
<1>7. ASSUME line.words = {}, line.clause \in Keywords
      PROVE  line.clause = "DESCRIPTION" /\ currentString = "DESCRIPTION"
  <2>1. line.number # 1
    BY <1>2, <1>7
  <2>2. line.clause = "DESCRIPTION"
    BY <1>3, <2>1 DEF TextOrder
  <2>3. PICK a \in 1 .. Len(node) : a < Read + 1 /\ node[a].clause = "DESCRIPTION"
    BY <1>3, <2>1, <2>2 DEF TextOrder
  <2>4. a \in 1 .. Read
    BY <2>3
  <2> QED  BY <2>2, <2>3, <2>4 DEF FieldsRead
<1> QED  BY <1>4, <1>6, <1>7

\* What a field gets is behind what it had.
Grown(new, old) ==
    /\ new \in [Keywords -> Seq(Lines)]
    /\ \A k \in Keywords : /\ Len(old[k]) <= Len(new[k])
                           /\ \A a \in 1 .. Len(old[k]) : new[k][a] = old[k][a]

LEMMA GrownByLine ==
    ASSUME NEW f \in [Keywords -> Seq(Lines)], NEW k \in Keywords, NEW line \in Lines
    PROVE  /\ Grown([f EXCEPT ![k] = Append(@, line)], f)
           /\ [f EXCEPT ![k] = Append(@, line)][k] = Append(f[k], line)
           /\ \A h \in Keywords \ {k} : [f EXCEPT ![k] = Append(@, line)][h] = f[h]
<1>1. f[k] \in Seq(Lines)
  OBVIOUS
<1>2. /\ Append(f[k], line) \in Seq(Lines) /\ Len(Append(f[k], line)) = Len(f[k]) + 1
      /\ Len(f[k]) \in Nat
      /\ \A a \in 1 .. Len(f[k]) : Append(f[k], line)[a] = f[k][a]
  BY <1>1
<1>3. \A h \in Keywords : Len(f[h]) \in Nat
  OBVIOUS
<1> QED  BY <1>2, <1>3 DEF Grown

LEMMA GrownByLines ==
    ASSUME NEW f \in [Keywords -> Seq(Lines)], NEW k \in Keywords, NEW t \in Seq(Lines)
    PROVE  /\ Grown([f EXCEPT ![k] = @ \o t], f)
           /\ [f EXCEPT ![k] = @ \o t][k] = f[k] \o t
           /\ \A h \in Keywords \ {k} : [f EXCEPT ![k] = @ \o t][h] = f[h]
<1>1. f[k] \in Seq(Lines)
  OBVIOUS
<1>2. /\ f[k] \o t \in Seq(Lines) /\ Len(f[k] \o t) = Len(f[k]) + Len(t)
      /\ Len(f[k]) \in Nat /\ Len(t) \in Nat
      /\ \A a \in 1 .. Len(f[k]) + Len(t) :
             (f[k] \o t)[a] = IF a <= Len(f[k]) THEN f[k][a] ELSE t[a - Len(f[k])]
  BY <1>1, ConcatProperties
<1>3. /\ Len(f[k]) <= Len(f[k] \o t)
      /\ \A a \in 1 .. Len(f[k]) : (f[k] \o t)[a] = f[k][a]
  BY <1>2
<1>4. \A h \in Keywords : Len(f[h]) \in Nat
  OBVIOUS
<1> QED  BY <1>2, <1>3, <1>4 DEF Grown

LEMMA GrownStill ==
    ASSUME NEW f \in [Keywords -> Seq(Lines)], NEW g, NEW h, Grown(g, f), Grown(h, g)
    PROVE  Grown(h, f)
<1>1. \A k \in Keywords : Len(f[k]) \in Nat /\ Len(g[k]) \in Nat /\ Len(h[k]) \in Nat
  BY DEF Grown
<1> QED  BY <1>1 DEF Grown

LEMMA SameIsLonger ==
    ASSUME NEW f \in [Keywords -> Seq(Lines)]
    PROVE  Grown(f, f)
<1>1. \A k \in Keywords : Len(f[k]) \in Nat
  OBVIOUS
<1> QED  BY <1>1 DEF Grown

\* What was read stays in its field, and the line that is read now comes to it.
LEMMA HeadingsStay ==
    ASSUME NodeTypeOK, HeadingsRead, lines # <<>>, lines' = Tail(lines), node' = node,
           Grown(field', field),
           Head(lines).clause \in Essential =>
               \E b \in 1 .. Len(field'[Head(lines).clause]) :
                   field'[Head(lines).clause][b] = Head(lines)
    PROVE  HeadingsRead'
<1>1. Read \in Nat /\ Read' = Read + 1 /\ Head(lines) = node[Read + 1] /\ Read + 1 <= Len(node)
  BY NextLine
<1>2. Essential \subseteq Keywords
  BY DEF Essential, Keywords
<1>3. \A k \in Keywords : Len(field[k]) \in Nat /\ Len(field'[k]) \in Nat
  BY DEF NodeTypeOK, Grown
<1>4. ASSUME NEW a \in 1 .. Read + 1, node[a].clause \in Essential
      PROVE  \E b \in 1 .. Len(field'[node[a].clause]) : field'[node[a].clause][b] = node[a]
  <2>1. CASE a = Read + 1
    BY <1>1, <1>4, <2>1
  <2>2. CASE a \in 1 .. Read
    <3>1. PICK b \in 1 .. Len(field[node[a].clause]) : field[node[a].clause][b] = node[a]
      BY <1>4, <2>2 DEF HeadingsRead
    <3>2. /\ Len(field[node[a].clause]) <= Len(field'[node[a].clause])
          /\ field'[node[a].clause][b] = field[node[a].clause][b]
      BY <1>2, <1>4, <3>1 DEF Grown
    <3>3. b \in 1 .. Len(field'[node[a].clause])
      BY <1>2, <1>3, <1>4, <3>1, <3>2
    <3> QED  BY <3>1, <3>2, <3>3
  <2> QED  BY <1>1, <2>1, <2>2
<1> QED  BY <1>1, <1>4 DEF HeadingsRead

\* What comes to a field while its lines are read.
LEMMA DescribedIs ==
    ASSUME NodeTypeOK, NEW line \in Lines
    PROVE  /\ Grown(Described(line), field)
           /\ \A k \in Keywords \ {"DESCRIPTION"} : Described(line)[k] = field[k]
           /\ Described(line)["DESCRIPTION"] =
                  IF currentString = "DESCRIPTION" /\ line.clause # "value"
                  THEN Append(field["DESCRIPTION"], line) ELSE field["DESCRIPTION"]
<1>1. field \in [Keywords -> Seq(Lines)] /\ "DESCRIPTION" \in Keywords
  BY DEF NodeTypeOK, Keywords
<1>2. CASE currentString = "DESCRIPTION" /\ line.clause # "value"
  <2>1. Described(line) = [field EXCEPT !["DESCRIPTION"] = Append(@, line)]
    BY <1>2 DEF Described
  <2> DEFINE more == [field EXCEPT !["DESCRIPTION"] = Append(@, line)]
  <2>2. /\ Grown(more, field) /\ more["DESCRIPTION"] = Append(field["DESCRIPTION"], line)
        /\ \A h \in Keywords \ {"DESCRIPTION"} : more[h] = field[h]
    BY <1>1, GrownByLine
  <2> HIDE DEF more
  <2>3. Described(line) = more
    BY <2>1 DEF more
  <2> QED  BY <1>2, <2>2, <2>3
<1>3. CASE ~(currentString = "DESCRIPTION" /\ line.clause # "value")
  <2>1. Described(line) = field
    BY <1>3 DEF Described
  <2> QED  BY <1>1, <1>3, <2>1, SameIsLonger
<1> QED  BY <1>2, <1>3

\* A line without a keyword.
LEMMA CollectKept == NodeInv /\ Collect => NodeInv'
<1> SUFFICES ASSUME NodeInv, Collect  PROVE NodeInv'
  OBVIOUS
<1> DEFINE line == Head(lines)
<1>1. /\ lines # <<>> /\ lines' = Tail(lines) /\ node' = node /\ currentString' = currentString
      /\ line.words = {} /\ field' = Described(line)
      /\ tmp' = IF LeftOut(line) THEN tmp ELSE Append(tmp, line)
  BY DEF Collect
<1>2. NodeTypeOK /\ HeadingsRead /\ (Quiet => FieldsRead)
  BY DEF NodeInv
<1>3. /\ Read \in Nat /\ Read + 1 <= Len(node) /\ Read' = Read + 1
      /\ line = node[Read + 1] /\ line \in Lines
      /\ lines' \in Seq(Lines) /\ Len(lines') <= Len(node)
      /\ \A a \in 1 .. Len(lines') : lines'[a] = node[Read' + a]
      /\ ReadLines \in Seq(Lines)
      /\ ReadLines' = Append(ReadLines, line)
  BY <1>1, <1>2, NextLine
<1> HIDE DEF line
<1>4. /\ Grown(field', field)
      /\ \A k \in Keywords \ {"DESCRIPTION"} : field'[k] = field[k]
      /\ field'["DESCRIPTION"] = IF currentString = "DESCRIPTION" /\ line.clause # "value"
                                 THEN Append(field["DESCRIPTION"], line) ELSE field["DESCRIPTION"]
  BY <1>1, <1>2, <1>3, DescribedIs
<1>5. tmp \in Seq(Lines) /\ tmp' \in Seq(Lines) /\ (tmp' = tmp \/ tmp' = Append(tmp, line))
  BY <1>1, <1>2, <1>3 DEF NodeTypeOK
<1>6. NodeTypeOK'
  BY <1>1, <1>2, <1>3, <1>4, <1>5 DEF NodeTypeOK, Grown
<1>7. HeadingsRead'
  <2>1. line.clause \notin Essential
    <3>1. Read + 1 \in 1 .. Len(node)
      BY <1>2, <1>3 DEF NodeTypeOK
    <3>2. line.clause \in Essential => line.words = {line.clause}
      BY <1>2, <1>3, <3>1 DEF NodeTypeOK, TextOrder
    <3> QED  BY <1>1, <3>2
  <2> QED  BY <1>1, <1>2, <1>4, <2>1, HeadingsStay DEF line
<1>8. ASSUME Quiet'  PROVE FieldsRead'
  <2>1. Quiet /\ FieldsRead
    BY <1>1, <1>2, <1>8 DEF Quiet
  <2>2. /\ line.clause \in Keywords =>
               line.clause = "DESCRIPTION" /\ currentString = "DESCRIPTION"
        /\ currentString = "DESCRIPTION" => line.clause \in {"DESCRIPTION", "DEFVAL", "value"}
    BY <1>1, <1>2, <1>3, <2>1, QuietLine
  <2>3. ASSUME NEW k \in Keywords
        PROVE  Of(field'[k], Keywords) = Of(ReadLines', {k})
    <3>1. Of(field[k], Keywords) = Of(ReadLines, {k}) /\ field[k] \in Seq(Lines)
      BY <1>2, <2>1 DEF FieldsRead, NodeTypeOK
    <3>2. Of(ReadLines', {k}) = IF line.clause = k THEN Append(Of(ReadLines, {k}), line)
                                ELSE Of(ReadLines, {k})
      <4>1. ReadLines \in Seq(Lines) /\ line \in Lines
        BY <1>3
      <4>2. Of(Append(ReadLines, line), {k}) =
                IF line.clause \in {k} THEN Append(Of(ReadLines, {k}), line)
                ELSE Of(ReadLines, {k})
        BY <4>1, OfAppend
      <4>3. Of(ReadLines', {k}) = Of(Append(ReadLines, line), {k})
        BY <1>3
      <4> QED  BY <4>2, <4>3
    <3>3. CASE k # "DESCRIPTION" \/ ~(currentString = "DESCRIPTION" /\ line.clause # "value")
      <4>1. field'[k] = field[k]
        BY <1>4, <3>3
      <4>2. line.clause # k
        <5>1. "DESCRIPTION" # "value"
          OBVIOUS
        <5> QED  BY <2>2, <3>3, <5>1
      <4> QED  BY <3>1, <3>2, <4>1, <4>2
    <3>4. CASE k = "DESCRIPTION" /\ currentString = "DESCRIPTION" /\ line.clause # "value"
      <4>1. field'[k] = Append(field[k], line)
        BY <1>4, <3>4
      <4>2. Of(field'[k], Keywords) = IF line.clause \in Keywords
                                      THEN Append(Of(field[k], Keywords), line)
                                      ELSE Of(field[k], Keywords)
        <5>1. Of(Append(field[k], line), Keywords) = IF line.clause \in Keywords
                                                     THEN Append(Of(field[k], Keywords), line)
                                                     ELSE Of(field[k], Keywords)
          <6>1. field[k] \in Seq(Lines) /\ line \in Lines
            BY <1>3, <3>1
          <6> QED  BY <6>1, OfAppend
        <5> QED  BY <4>1, <5>1
      <4>3. line.clause \in Keywords <=> line.clause = k
        BY <2>2, <3>4 DEF Keywords
      <4> QED  BY <3>1, <3>2, <4>2, <4>3
    <3> QED  BY <3>3, <3>4
  <2>4. ASSUME currentString' # "DESCRIPTION", NEW a \in 1 .. Len(tmp')
        PROVE  tmp'[a].clause \notin Keywords
    <3>1. line.clause \notin Keywords /\ \A b \in 1 .. Len(tmp) : tmp[b].clause \notin Keywords
      BY <1>1, <2>1, <2>2, <2>4 DEF FieldsRead
    <3>2. Len(tmp) \in Nat
      BY <1>5
    <3>3. CASE tmp' = tmp
      BY <3>1, <3>3, <2>4
    <3>4. CASE tmp' = Append(tmp, line)
      <4>1. Len(tmp') = Len(tmp) + 1 /\ tmp'[Len(tmp) + 1] = line
            /\ \A b \in 1 .. Len(tmp) : tmp'[b] = tmp[b]
        BY <1>5, <3>4
      <4>2. a = Len(tmp) + 1 \/ a \in 1 .. Len(tmp)
        BY <2>4, <3>2, <4>1
      <4> QED  BY <3>1, <4>1, <4>2
    <3> QED  BY <1>5, <3>3, <3>4
  <2>5. currentString' = "DESCRIPTION" <=> \E a \in 1 .. Read' : node'[a].clause = "DESCRIPTION"
    <3>1. currentString = "DESCRIPTION" <=> \E a \in 1 .. Read : node[a].clause = "DESCRIPTION"
      BY <2>1 DEF FieldsRead
    <3>2. line.clause = "DESCRIPTION" => currentString = "DESCRIPTION"
      BY <2>2 DEF Keywords
    <3>3. \A a \in 1 .. Read + 1 : a \in 1 .. Read \/ a = Read + 1
      BY <1>3
    <3>4. 1 .. Read \subseteq 1 .. Read + 1
      BY <1>3
    <3> QED  BY <1>1, <1>3, <3>1, <3>2, <3>3, <3>4
  <2> QED  BY <2>3, <2>4, <2>5 DEF FieldsRead
<1> QED  BY <1>6, <1>7, <1>8 DEF NodeInv

\* A line with a keyword.
LEMMA SwitchKept == NodeInv /\ Switch => NodeInv'
<1> SUFFICES ASSUME NodeInv, Switch  PROVE NodeInv'
  OBVIOUS
<1> DEFINE line == Head(lines)
           k == Deciding(line)
           f == Described(line)
           g == Flushed(k, f)
<1>1. /\ lines # <<>> /\ lines' = Tail(lines) /\ node' = node /\ currentString' = k
      /\ line.words # {} /\ field' = [g EXCEPT ![k] = Append(@, line)] /\ tmp' = <<>>
  BY DEF Switch, Begins
<1>2. NodeTypeOK /\ HeadingsRead /\ (Quiet => FieldsRead)
  BY DEF NodeInv
<1>3. /\ Read \in Nat /\ Read + 1 <= Len(node) /\ Read' = Read + 1
      /\ line = node[Read + 1] /\ line \in Lines
      /\ lines' \in Seq(Lines) /\ Len(lines') <= Len(node)
      /\ \A a \in 1 .. Len(lines') : lines'[a] = node[Read' + a]
      /\ ReadLines \in Seq(Lines)
      /\ ReadLines' = Append(ReadLines, line)
  BY <1>1, <1>2, NextLine
<1>4. k \in line.words /\ k \in Keywords
  BY <1>1, <1>3, DecidingIs
<1>5. /\ Grown(f, field)
      /\ f["DESCRIPTION"] = IF currentString = "DESCRIPTION" /\ line.clause # "value"
                            THEN Append(field["DESCRIPTION"], line) ELSE field["DESCRIPTION"]
      /\ \A h \in Keywords \ {"DESCRIPTION"} : f[h] = field[h]
  BY <1>2, <1>3, DescribedIs
<1>6. g = IF currentString \in Keywords \ {k, "DESCRIPTION"}
          THEN [f EXCEPT ![currentString] = @ \o tmp] ELSE f
  BY DEF Flushed
<1> HIDE DEF line, k, f, g
<1>7. f \in [Keywords -> Seq(Lines)] /\ tmp \in Seq(Lines) /\ field \in [Keywords -> Seq(Lines)]
  BY <1>2, <1>5 DEF Grown, NodeTypeOK
<1>8. /\ Grown(g, f)
      /\ currentString \in Keywords \ {k, "DESCRIPTION"} =>
             /\ g[currentString] = f[currentString] \o tmp
             /\ \A h \in Keywords \ {currentString} : g[h] = f[h]
      /\ currentString \notin Keywords \ {k, "DESCRIPTION"} => g = f
  <2>1. CASE currentString \in Keywords \ {k, "DESCRIPTION"}
    BY <1>6, <1>7, <2>1, GrownByLines
  <2>2. CASE currentString \notin Keywords \ {k, "DESCRIPTION"}
    BY <1>6, <1>7, <2>2, SameIsLonger
  <2> QED  BY <2>1, <2>2
<1>9. g \in [Keywords -> Seq(Lines)]
  BY <1>8 DEF Grown
<1>10. /\ Grown(field', g) /\ field'[k] = Append(g[k], line)
       /\ \A h \in Keywords \ {k} : field'[h] = g[h]
  BY <1>1, <1>3, <1>4, <1>9, GrownByLine
<1>11. Grown(field', field)
  BY <1>5, <1>7, <1>8, <1>10, GrownStill
<1>12. tmp' \in Seq(Lines) /\ Len(tmp') = 0
  BY <1>1
<1>13. NodeTypeOK'
  BY <1>1, <1>2, <1>3, <1>4, <1>11, <1>12 DEF NodeTypeOK, Grown
<1>14. HeadingsRead'
  <2>1. ASSUME line.clause \in Essential
        PROVE  \E b \in 1 .. Len(field'[line.clause]) : field'[line.clause][b] = line
    <3>1. Read + 1 \in 1 .. Len(node)
      BY <1>2, <1>3 DEF NodeTypeOK
    <3>2. line.words = {line.clause}
      BY <1>2, <1>3, <2>1, <3>1 DEF NodeTypeOK, TextOrder
    <3>3. k = line.clause
      BY <1>4, <3>2
    <3>4. field'[k] = Append(g[k], line) /\ g[k] \in Seq(Lines)
      BY <1>4, <1>9, <1>10
    <3>5. Len(field'[k]) = Len(g[k]) + 1 /\ Len(g[k]) \in Nat /\ field'[k][Len(g[k]) + 1] = line
      BY <1>3, <3>4
    <3>6. Len(g[k]) + 1 \in 1 .. Len(field'[k])
      BY <3>5
    <3> QED  BY <3>3, <3>5, <3>6
  <2> QED  BY <1>1, <1>2, <1>11, <2>1, HeadingsStay DEF line
<1>15. ASSUME Quiet'  PROVE FieldsRead'
  <2>1. Quiet /\ FieldsRead
    BY <1>1, <1>2, <1>15 DEF Quiet
  <2>2. /\ line.words = {line.clause} /\ line.clause \in Keywords
        /\ currentString # "DESCRIPTION"
    <3>1. Read + 1 \in 1 .. Len(node)
      BY <1>2, <1>3 DEF NodeTypeOK
    <3> QED  BY <1>1, <1>2, <1>3, <2>1, <3>1, QuietLine
  <2>3. k = line.clause
    BY <1>4, <2>2
  <2>4. \A h \in Keywords : f[h] = field[h]
    BY <1>5, <2>2
  <2>5. \A a \in 1 .. Len(tmp) : tmp[a].clause \notin Keywords
    BY <2>1, <2>2 DEF FieldsRead
  <2>6. ASSUME NEW h \in Keywords
        PROVE  Of(g[h], Keywords) = Of(ReadLines, {h})
    <3>1. Of(field[h], Keywords) = Of(ReadLines, {h}) /\ field[h] \in Seq(Lines)
      BY <1>2, <2>1 DEF FieldsRead, NodeTypeOK
    <3>2. CASE g[h] = f[h]
      BY <2>4, <3>1, <3>2
    <3>3. CASE g[h] = f[h] \o tmp
      <4>1. Of(f[h] \o tmp, Keywords) = Of(f[h], Keywords)
        BY <1>7, <2>5, OfConcat
      <4> QED  BY <2>4, <3>1, <3>3, <4>1
    <3> QED  BY <1>8, <3>2, <3>3
  <2>7. ASSUME NEW h \in Keywords
        PROVE  Of(field'[h], Keywords) = Of(ReadLines', {h})
    <3>1. Of(ReadLines', {h}) = IF line.clause = h THEN Append(Of(ReadLines, {h}), line)
                                ELSE Of(ReadLines, {h})
      <4>1. ReadLines \in Seq(Lines) /\ line \in Lines
        BY <1>3
      <4>2. Of(Append(ReadLines, line), {h}) =
                IF line.clause \in {h} THEN Append(Of(ReadLines, {h}), line)
                ELSE Of(ReadLines, {h})
        BY <4>1, OfAppend
      <4>3. Of(ReadLines', {h}) = Of(Append(ReadLines, line), {h})
        BY <1>3
      <4> QED  BY <4>2, <4>3
    <3>2. CASE h = k
      <4>1. Of(field'[h], Keywords) = Append(Of(g[h], Keywords), line)
        <5>1. field'[h] = Append(g[h], line) /\ g[h] \in Seq(Lines)
          BY <1>9, <1>10, <3>2
        <5> QED  BY <1>3, <2>2, <5>1, OfAppend
      <4> QED  BY <2>3, <2>6, <3>1, <3>2, <4>1
    <3>3. CASE h # k
      <4>1. field'[h] = g[h]
        BY <1>10, <3>3
      <4> QED  BY <2>3, <2>6, <3>1, <3>3, <4>1
    <3> QED  BY <3>2, <3>3
  <2>8. currentString' # "DESCRIPTION" => \A a \in 1 .. Len(tmp') : tmp'[a].clause \notin Keywords
    BY <1>12
  <2>9. currentString' = "DESCRIPTION" <=> \E a \in 1 .. Read' : node'[a].clause = "DESCRIPTION"
    <3>1. ~\E a \in 1 .. Read : node[a].clause = "DESCRIPTION"
      BY <2>1, <2>2 DEF FieldsRead
    <3>2. \A a \in 1 .. Read + 1 : a \in 1 .. Read \/ a = Read + 1
      BY <1>3
    <3>3. Read + 1 \in 1 .. Read + 1
      BY <1>3
    <3> QED  BY <1>1, <1>3, <2>3, <3>1, <3>2, <3>3
  <2> QED  BY <2>7, <2>8, <2>9 DEF FieldsRead
<1> QED  BY <1>13, <1>14, <1>15 DEF NodeInv

\* What was read of each clause is in its field, at every line of the text.
THEOREM NodeInvariant == NodeSpec => []NodeInv
<1>1. NodeInv /\ [NodeNext]_nodeVars => NodeInv'
  <2> SUFFICES ASSUME NodeInv, [NodeNext]_nodeVars  PROVE NodeInv'
    OBVIOUS
  <2>1. CASE Collect
    BY <2>1, CollectKept
  <2>2. CASE Switch
    BY <2>2, SwitchKept
  <2>3. CASE UNCHANGED nodeVars
    BY <2>3 DEF nodeVars, NodeInv, NodeTypeOK, HeadingsRead, FieldsRead, Quiet, Read, ReadLines
  <2> QED  BY <2>1, <2>2, <2>3 DEF NodeNext
<1> QED  BY <1>1, NodeStart, PTL DEF NodeSpec

\* Whichever clauses a text has, and whatever its free parts mention, the panel
\* shows the type, the access and the status of the object; and each field is its
\* clause, complete, when no text mentions a keyword.
THEOREM PanelShows == NodeSpec => []PanelRight
<1>1. NodeInv => PanelRight
  <2> SUFFICES ASSUME NodeInv, lines = <<>>  PROVE FieldsRight /\ HeadingsKept
    BY DEF PanelRight
  <2>1. NodeTypeOK /\ HeadingsRead /\ (Quiet => FieldsRead)
    BY DEF NodeInv
  <2>2. node \in Seq(Lines) /\ Len(node) \in Nat /\ Read = Len(node)
    BY <2>1 DEF NodeTypeOK, Read
  <2>3. FieldsRight
    <3>1. ReadLines = node
      BY <2>2 DEF ReadLines
    <3> QED  BY <2>1, <3>1 DEF FieldsRight, FieldsRead, Own
  <2>4. ASSUME NEW k \in Essential, NEW line \in ToSet(Own(k))
        PROVE  line \in ToSet(field[k])
    <3>1. PICK a \in 1 .. Len(node) : line = node[a] /\ node[a].clause = k
      <4> DEFINE P == {b \in 1 .. Len(node) : node[b].clause \in {k}}
      <4>1. Own(k) \in Seq(Lines) /\ IsChosen(Own(k), node, Len(node), P)
        BY <2>2, OfIs DEF Own
      <4>2. PICK b \in 1 .. Len(Own(k)) : line = Own(k)[b]
        BY <4>1, <2>4 DEF ToSet
      <4>3. PICK place \in [1 .. Len(Own(k)) -> 1 .. Len(node)] :
                \A c \in 1 .. Len(Own(k)) : Own(k)[c] = node[place[c]] /\ place[c] \in P
        BY <4>1 DEF IsChosen
      <4> QED  BY <4>2, <4>3
    <3>2. PICK b \in 1 .. Len(field[k]) : field[k][b] = line
      BY <2>1, <2>2, <3>1 DEF HeadingsRead
    <3>3. field[k] \in Seq(Lines)
      BY <2>1 DEF NodeTypeOK, Essential, Keywords
    <3> QED  BY <3>2, <3>3 DEF ToSet
  <2> QED  BY <2>3, <2>4 DEF HeadingsKept, Essential
<1> QED  BY <1>1, NodeInvariant, PTL

-----------------------------------------------------------------------------
(* How modules become one tree (MibLinker).                                *)

\* What the modules that are not broken define.
AllObjects == UNION {ToSet(Objects(m)) : m \in Modules \ Broken}

Node == [id : Nat \ {0}, label : STRING, up : Nat, subid : Nat, mods : SUBSET STRING]

\* A node is a root, or an object below the node of its parent, which was made before.
IsRoot(n) ==
    n.up = 0 /\ \E k \in DOMAIN Roots : n.label = Roots[k].label /\ n.subid = Roots[k].subid

Hangs(t, n) ==
    \E p \in t, o \in AllObjects :
        p.id = n.up /\ p.id < n.id /\ o.label = n.label /\ o.parent = p.label /\ o.subid = n.subid

IsTree(t, count) ==
    /\ t \subseteq Node
    /\ \A n \in t : n.id <= count /\ (IsRoot(n) \/ Hangs(t, n))
    /\ \A n, o \in t : n.id = o.id \/ n.label = o.label => n = o

\* The object is in the tree for its module.
IsLinked(t, n) == \E u \in t : u.label = n.label /\ n.mod \in u.mods

Has(s, n) == \E k \in 1 .. Len(s) : s[k] = n

\* The modules that are being read.
Reading(q) == {q[k].module : k \in 1 .. Len(q)}

\* Each object of a module that was read to its end is in the tree or an orphan.
NothingLost ==
    \A m \in (loaded \ Broken) \ Reading(reading) :
        \A n \in ToSet(Objects(m)) : IsLinked(tree, n) \/ Has(orphans, n)

\* No object that is left has a parent in the tree.
NoneReady(t, left) == \A k \in 1 .. Len(left) : \A u \in t : u.label # left[k].parent

LinkerInv ==
    /\ IsTree(tree, made) /\ made \in Nat /\ top \in Seq(Nat)
    /\ loaded \subseteq Modules /\ IsFiniteSet(loaded)
    /\ reading \in Seq([module : Modules, group : Nat])
    /\ orphans \in Seq(AllObjects)
    /\ NothingLost
    /\ settled => reading = <<>> /\ NoneReady(tree, orphans)

\* What is known of the objects.
LEMMA ObjectsAre ==
    /\ \A m \in Modules \ Broken :
           /\ Objects(m) \in Seq(AllObjects)
           /\ \A k \in 1 .. Len(Objects(m)) : Objects(m)[k].mod = m
    /\ \A n \in AllObjects : n.label \in STRING /\ n.parent \in STRING /\ n.subid \in Nat
                             /\ n.mod \in Modules /\ n.mod \in STRING
    /\ \A n \in AllObjects : n \in ToSet(Objects(n.mod)) /\ n.mod \notin Broken
<1>1. ASSUME NEW m \in Modules
      PROVE  /\ Len(Nodes[m]) \in Nat /\ DOMAIN Nodes[m] = 1 .. Len(Nodes[m])
             /\ \A k \in 1 .. Len(Nodes[m]) :
                    /\ Nodes[m][k].label \in STRING /\ Nodes[m][k].parent \in STRING
                    /\ Nodes[m][k].subid \in Nat
  <2>1. Nodes[m] \in Seq([label : STRING, parent : STRING, subid : Nat])
    BY MibLinkerAssumption
  <2> DEFINE R == [label : STRING, parent : STRING, subid : Nat]
  <2>2. \A r \in R : r.label \in STRING /\ r.parent \in STRING /\ r.subid \in Nat
    OBVIOUS
  <2> HIDE DEF R
  <2>3. Len(Nodes[m]) \in Nat /\ DOMAIN Nodes[m] = 1 .. Len(Nodes[m])
    BY <2>1 DEF R
  <2>4. \A k \in 1 .. Len(Nodes[m]) : Nodes[m][k] \in R
    <3>1. Nodes[m] \in Seq(R)
      BY <2>1 DEF R
    <3> QED  BY <3>1
  <2> QED  BY <2>2, <2>3, <2>4
<1>2. ASSUME NEW m \in Modules
      PROVE  /\ DOMAIN Objects(m) = 1 .. Len(Nodes[m])
             /\ Len(Objects(m)) = Len(Nodes[m])
             /\ \A k \in 1 .. Len(Nodes[m]) :
                    /\ Objects(m)[k].label = Nodes[m][k].label
                    /\ Objects(m)[k].parent = Nodes[m][k].parent
                    /\ Objects(m)[k].subid = Nodes[m][k].subid
                    /\ Objects(m)[k].mod = m
  BY <1>1 DEF Objects
<1>3. ASSUME NEW m \in Modules \ Broken
      PROVE  Objects(m) \in Seq(AllObjects)
  <2>1. \A k \in 1 .. Len(Nodes[m]) : Objects(m)[k] \in AllObjects
    BY <1>2 DEF AllObjects, ToSet
  <2>2. Objects(m) = [k \in 1 .. Len(Nodes[m]) |-> Objects(m)[k]]
    BY <1>1 DEF Objects
  <2> DEFINE f == Objects(m)
             n == Len(Nodes[m])
  <2>3. n \in Nat /\ (\A k \in 1 .. n : f[k] \in AllObjects) /\ f = [k \in 1 .. n |-> f[k]]
    BY <1>1, <2>1, <2>2
  <2> HIDE DEF f, n
  <2>4. f \in Seq(AllObjects)
    BY <2>3
  <2> QED  BY <2>4 DEF f
<1>4. ASSUME NEW n \in AllObjects
      PROVE  \E m \in Modules \ Broken : \E k \in 1 .. Len(Nodes[m]) : n = Objects(m)[k]
  <2>1. PICK m \in Modules \ Broken : n \in ToSet(Objects(m))
    BY DEF AllObjects
  <2> QED  BY <1>2, <2>1 DEF ToSet
<1>5. Modules \subseteq STRING
  BY MibLinkerAssumption
<1>6. ASSUME NEW n \in AllObjects
      PROVE  /\ n.label \in STRING /\ n.parent \in STRING /\ n.subid \in Nat
             /\ n.mod \in Modules /\ n.mod \in STRING
             /\ n \in ToSet(Objects(n.mod)) /\ n.mod \notin Broken
  <2>1. PICK m \in Modules \ Broken : \E k \in 1 .. Len(Nodes[m]) : n = Objects(m)[k]
    BY <1>4
  <2>2. PICK k \in 1 .. Len(Nodes[m]) : n = Objects(m)[k]
    BY <2>1
  <2>3. n.mod = m
    BY <1>2, <2>2
  <2>4. n \in ToSet(Objects(m))
    BY <1>2, <2>2 DEF ToSet
  <2>5. n.label \in STRING /\ n.parent \in STRING /\ n.subid \in Nat
    BY <1>1, <1>2, <2>2
  <2> QED  BY <1>5, <2>3, <2>4, <2>5
<1> QED  BY <1>2, <1>3, <1>6

\* What it means that the modules are consistent.
LEMMA ConsistentIs ==
    ASSUME Consistent
    PROVE  /\ \A n, o \in AllObjects :
                  n.label = o.label <=> n.parent = o.parent /\ n.subid = o.subid
           /\ \A n \in AllObjects : \A k \in DOMAIN Roots : n.label # Roots[k].label
           /\ \A p, q \in DOMAIN Roots :
                  Roots[p].label = Roots[q].label \/ Roots[p].subid = Roots[q].subid => p = q
BY DEF Consistent, AllObjects

\* The reverse has the same elements.
LEMMA ReverseIs ==
    ASSUME NEW S, NEW s \in Seq(S)
    PROVE  /\ Reverse(s) \in Seq(S) /\ Len(Reverse(s)) = Len(s)
           /\ \A k \in 1 .. Len(s) : \E p \in 1 .. Len(s) : Reverse(s)[p] = s[k]
<1>1. Reverse(s) = [k \in 1 .. Len(s) |-> s[(Len(s) - k) + 1]]
  BY DEF Reverse
<1>2. \A k \in 1 .. Len(s) : (Len(s) - k) + 1 \in 1 .. Len(s) /\ (Len(s) - ((Len(s) - k) + 1)) + 1 = k
  OBVIOUS
<1> QED  BY <1>1, <1>2

\* The oldest and the newest of one.
LEMMA OnlyOne ==
    ASSUME NEW x, x.id \in Nat
    PROVE  Oldest({x}) = x /\ Newest({x}) = x
BY DEF Oldest, Newest

\* What is known of the nodes of a tree.
LEMMA NodesAre ==
    ASSUME NEW t, NEW c, IsTree(t, c)
    PROVE  /\ \A n \in t : /\ n.id \in Nat /\ n.id > 0 /\ n.id <= c /\ n.up \in Nat
                           /\ n.label \in STRING /\ n.subid \in Nat /\ n.mods \subseteq STRING
           /\ \A n \in t : n.up = 0 => IsRoot(n)
           /\ \A n \in t : n.up # 0 => Hangs(t, n)
           /\ \A n, o \in t : n.id = o.id \/ n.label = o.label => n = o
<1>1. ASSUME NEW n \in t
      PROVE  /\ n.id \in Nat /\ n.id > 0 /\ n.id <= c /\ n.up \in Nat
             /\ n.label \in STRING /\ n.subid \in Nat /\ n.mods \subseteq STRING
  <2>1. n \in Node /\ n.id <= c
    BY DEF IsTree
  <2> QED  BY <2>1 DEF Node
<1>2. ASSUME NEW n \in t  PROVE IsRoot(n) \/ Hangs(t, n)
  BY DEF IsTree
<1>3. \A n \in t : Hangs(t, n) => n.up # 0
  BY <1>1 DEF Hangs
<1>4. \A n \in t : IsRoot(n) => n.up = 0
  BY DEF IsRoot
<1>5. \A n, o \in t : n.id = o.id \/ n.label = o.label => n = o
  BY DEF IsTree
<1> QED  BY <1>1, <1>2, <1>3, <1>4, <1>5

\* A node has no peer with its sub-identifier.
LEMMA NoPeers ==
    ASSUME Consistent, NEW t, NEW c, IsTree(t, c), NEW n \in t
    PROVE  {u \in t : u.up = n.up /\ u.subid = n.subid} = {n}
<1> SUFFICES ASSUME NEW u \in t, u.up = n.up, u.subid = n.subid
             PROVE  u.label = n.label
  BY NodesAre
<1>1. CASE n.up = 0
  <2>1. IsRoot(n) /\ IsRoot(u)
    BY <1>1, NodesAre
  <2>2. PICK p \in DOMAIN Roots : n.label = Roots[p].label /\ n.subid = Roots[p].subid
    BY <2>1 DEF IsRoot
  <2>3. PICK q \in DOMAIN Roots : u.label = Roots[q].label /\ u.subid = Roots[q].subid
    BY <2>1 DEF IsRoot
  <2> QED  BY <2>2, <2>3, ConsistentIs
<1>2. CASE n.up # 0
  <2>1. Hangs(t, n) /\ Hangs(t, u)
    BY <1>2, NodesAre
  <2>2. PICK p \in t, o \in AllObjects :
            p.id = n.up /\ o.label = n.label /\ o.parent = p.label /\ o.subid = n.subid
    BY <2>1 DEF Hangs
  <2>3. PICK q \in t, x \in AllObjects :
            q.id = u.up /\ x.label = u.label /\ x.parent = q.label /\ x.subid = u.subid
    BY <2>1 DEF Hangs
  <2>4. p = q
    BY <2>2, <2>3, NodesAre
  <2> QED  BY <2>2, <2>3, <2>4, ConsistentIs
<1> QED  BY <1>1, <1>2

\* What is at the place of an object is what has its label.
LEMMA PlaceIs ==
    ASSUME Consistent, NEW t, NEW c, IsTree(t, c),
           NEW n \in AllObjects, NEW p \in t, p.label = n.parent
    PROVE  {u \in t : u.up = p.id /\ u.subid = n.subid} = {u \in t : u.label = n.label}
<1>1. ASSUME NEW u \in t, u.up = p.id, u.subid = n.subid  PROVE u.label = n.label
  <2>1. u.up # 0
    BY <1>1, NodesAre
  <2>2. Hangs(t, u)
    BY <2>1, NodesAre
  <2>3. PICK q \in t, o \in AllObjects :
            q.id = u.up /\ o.label = u.label /\ o.parent = q.label /\ o.subid = u.subid
    BY <2>2 DEF Hangs
  <2>4. p = q
    BY <1>1, <2>3, NodesAre
  <2> QED  BY <1>1, <2>3, <2>4, ConsistentIs
<1>2. ASSUME NEW u \in t, u.label = n.label  PROVE u.up = p.id /\ u.subid = n.subid
  <2>1. u.up # 0
    <3>1. ~IsRoot(u)
      BY <1>2, ConsistentIs DEF IsRoot
    <3> QED  BY <3>1, NodesAre
  <2>2. Hangs(t, u)
    BY <2>1, NodesAre
  <2>3. PICK q \in t, o \in AllObjects :
            q.id = u.up /\ o.label = u.label /\ o.parent = q.label /\ o.subid = u.subid
    BY <2>2 DEF Hangs
  <2>4. o.parent = n.parent /\ o.subid = n.subid
    BY <1>2, <2>3, ConsistentIs
  <2>5. p = q
    BY <2>3, <2>4, NodesAre
  <2> QED  BY <2>3, <2>4, <2>5
<1> QED  BY <1>1, <1>2

\* A label is found once.
LEMMA LabelIs ==
    ASSUME NEW t, NEW c, IsTree(t, c), NEW u \in t
    PROVE  {v \in t : v.label = u.label} = {u}
BY NodesAre

\* The states of a list of objects on its way into the tree: what is to be placed
\* has its parent in the tree.
LinkStates ==
    {s \in [tree : SUBSET Node, made : Nat, pending : Seq(AllObjects),
            todo : Seq([node : AllObjects, under : Nat])] :
        /\ IsTree(s.tree, s.made)
        /\ \A k \in 1 .. Len(s.todo) : \E p \in s.tree :
               p.id = s.todo[k].under /\ p.label = s.todo[k].node.parent}

\* An object is still to be placed.
Waits(s, n) ==
    \/ \E k \in 1 .. Len(s.pending) : s.pending[k] = n
    \/ \E k \in 1 .. Len(s.todo) : s.todo[k].node = n

Size(s) == Len(s.pending) + Len(s.todo)

\* A tree has what another one has, and an object that waited is placed or waits.
Grows(t, r) ==
    \A n \in t : \E u \in r : u.id = n.id /\ u.label = n.label /\ n.mods \subseteq u.mods

Follows(s, r) ==
    /\ Grows(s.tree, r.tree)
    /\ \A n \in AllObjects : Waits(s, n) => Waits(r, n) \/ IsLinked(r.tree, n)

\* What follows what follows a state follows it.
LEMMA FollowsOn ==
    ASSUME NEW s, NEW r, NEW q, Follows(s, r), Follows(r, q)
    PROVE  Follows(s, q)
<1>1. Grows(s.tree, q.tree)
  BY DEF Follows, Grows
<1>2. \A n : IsLinked(r.tree, n) => IsLinked(q.tree, n)
  BY DEF Follows, Grows, IsLinked
<1> QED  BY <1>1, <1>2 DEF Follows

\* A state follows itself.
LEMMA FollowsSame ==
    ASSUME NEW s
    PROVE  Follows(s, s)
BY DEF Follows, Grows

\* What is known of the states of a list.
LEMMA StatesAre ==
    ASSUME NEW s \in LinkStates
    PROVE  /\ s = [tree |-> s.tree, made |-> s.made, pending |-> s.pending, todo |-> s.todo]
           /\ IsTree(s.tree, s.made) /\ s.tree \in SUBSET Node /\ s.made \in Nat
           /\ s.pending \in Seq(AllObjects) /\ s.todo \in Seq([node : AllObjects, under : Nat])
           /\ Len(s.pending) \in Nat /\ Len(s.todo) \in Nat
           /\ \A k \in 1 .. Len(s.pending) : s.pending[k] \in AllObjects
           /\ \A k \in 1 .. Len(s.todo) :
                  /\ s.todo[k].node \in AllObjects /\ s.todo[k].under \in Nat
                  /\ \E p \in s.tree : p.id = s.todo[k].under /\ p.label = s.todo[k].node.parent
<1> DEFINE R == [node : AllObjects, under : Nat]
<1>1. /\ s = [tree |-> s.tree, made |-> s.made, pending |-> s.pending, todo |-> s.todo]
      /\ IsTree(s.tree, s.made) /\ s.tree \in SUBSET Node /\ s.made \in Nat
      /\ s.pending \in Seq(AllObjects) /\ s.todo \in Seq(R)
      /\ \A k \in 1 .. Len(s.todo) :
             \E p \in s.tree : p.id = s.todo[k].under /\ p.label = s.todo[k].node.parent
  <2> HIDE DEF R
  <2> QED  BY DEF LinkStates, R
<1>2. \A r \in R : r.node \in AllObjects /\ r.under \in Nat
  OBVIOUS
<1> HIDE DEF R
<1>3. Len(s.todo) \in Nat /\ \A k \in 1 .. Len(s.todo) : s.todo[k] \in R
  BY <1>1
<1>4. Len(s.pending) \in Nat /\ \A k \in 1 .. Len(s.pending) : s.pending[k] \in AllObjects
  BY <1>1
<1> QED  BY <1>1, <1>2, <1>3, <1>4 DEF R

\* What makes a state of the list.
LEMMA StateIs ==
    ASSUME NEW t, NEW c \in Nat, IsTree(t, c), NEW p \in Seq(AllObjects),
           NEW d \in Seq([node : AllObjects, under : Nat]),
           \A k \in 1 .. Len(d) : \E u \in t : u.id = d[k].under /\ u.label = d[k].node.parent
    PROVE  [tree |-> t, made |-> c, pending |-> p, todo |-> d] \in LinkStates
<1> DEFINE R == [node : AllObjects, under : Nat]
           s == [tree |-> t, made |-> c, pending |-> p, todo |-> d]
<1>1. t \in SUBSET Node
  BY DEF IsTree
<1> HIDE DEF R
<1>2. s \in [tree : SUBSET Node, made : Nat, pending : Seq(AllObjects), todo : Seq(R)]
  BY <1>1 DEF R
<1>3. s.tree = t /\ s.made = c /\ s.todo = d
  OBVIOUS
<1> HIDE DEF s
<1> QED  BY <1>2, <1>3 DEF LinkStates, R, s

\* The objects below a node leave the list for what is to be placed.
LEMMA TakenIs ==
    ASSUME Consistent, NEW s \in LinkStates, NEW x \in s.tree
    PROVE  LET r == Taken(s, x)
           IN  /\ r \in LinkStates /\ Follows(s, r) /\ Size(r) = Size(s)
               /\ r.tree = s.tree
               /\ Len(r.todo) >= Len(s.todo)
               /\ (\E k \in 1 .. Len(s.pending) : s.pending[k].parent = x.label) =>
                      Len(r.todo) > Len(s.todo)
<1> DEFINE mine == {k \in DOMAIN s.pending : s.pending[k].parent = x.label}
           kids == Chosen(s.pending, mine)
           rest == Chosen(s.pending, DOMAIN s.pending \ mine)
           new == [k \in DOMAIN kids |-> [node |-> kids[k], under |-> x.id]]
           R == [node : AllObjects, under : Nat]
<1>1. /\ s = [tree |-> s.tree, made |-> s.made, pending |-> s.pending, todo |-> s.todo]
      /\ IsTree(s.tree, s.made) /\ s.made \in Nat
      /\ s.pending \in Seq(AllObjects) /\ s.todo \in Seq(R)
      /\ Len(s.pending) \in Nat /\ Len(s.todo) \in Nat
      /\ \A k \in 1 .. Len(s.todo) :
             \E p \in s.tree : p.id = s.todo[k].under /\ p.label = s.todo[k].node.parent
  BY StatesAre
<1>2. x.id \in Nat
  BY <1>1, NodesAre
<1>3. Xroot(s, x).id = x.id
  <2>1. {u \in s.tree : u.up = x.up /\ u.subid = x.subid} = {x}
    BY <1>1, NoPeers
  <2> QED  BY <1>2, <2>1, OnlyOne DEF Xroot
<1>4. Taken(s, x) = [s EXCEPT !.pending = rest, !.todo = new \o @]
  BY <1>3 DEF Taken
<1>5. \A k \in 1 .. Len(s.pending) : k \in mine <=> s.pending[k].parent = x.label
  BY <1>1
<1> HIDE DEF mine
<1>6. /\ kids \in Seq(AllObjects) /\ rest \in Seq(AllObjects)
      /\ Len(kids) + Len(rest) = Len(s.pending)
      /\ \A k \in 1 .. Len(s.pending) : k \in mine => \E p \in 1 .. Len(kids) : kids[p] = s.pending[k]
      /\ \A k \in 1 .. Len(s.pending) : k \notin mine => \E p \in 1 .. Len(rest) : rest[p] = s.pending[k]
      /\ \A p \in 1 .. Len(kids) : \E k \in 1 .. Len(s.pending) : k \in mine /\ kids[p] = s.pending[k]
  <2> DEFINE q == s.pending
  <2>1. q \in Seq(AllObjects)
    BY <1>1
  <2> HIDE DEF q
  <2>2. AreParts(Chosen(q, mine), Chosen(q, DOMAIN q \ mine), q, mine, AllObjects)
    BY <2>1, PartsOf
  <2>3. AreParts(kids, rest, q, mine, AllObjects)
    BY <2>2 DEF q
  <2> HIDE DEF kids, rest
  <2> QED  BY <2>3 DEF q, AreParts
<1> HIDE DEF kids, rest
<1>7. /\ Len(kids) \in Nat /\ DOMAIN kids = 1 .. Len(kids) /\ Len(rest) \in Nat
      /\ \A k \in 1 .. Len(kids) : kids[k] \in AllObjects
  BY <1>6
<1>8. ASSUME NEW p \in 1 .. Len(kids)  PROVE kids[p].parent = x.label
  <2>1. PICK k \in 1 .. Len(s.pending) : k \in mine /\ kids[p] = s.pending[k]
    BY <1>6
  <2>2. s.pending[k].parent = x.label
    BY <1>5, <2>1
  <2> QED  BY <2>1, <2>2
<1>9. new \in Seq(R) /\ Len(new) = Len(kids)
      /\ \A k \in 1 .. Len(kids) : new[k].node = kids[k] /\ new[k].under = x.id
  <2>1. \A k \in 1 .. Len(kids) : [node |-> kids[k], under |-> x.id] \in R
    BY <1>2, <1>7
  <2>2. new = [k \in 1 .. Len(kids) |-> [node |-> kids[k], under |-> x.id]]
    BY <1>7
  <2>3. \A k \in 1 .. Len(kids) : new[k] \in R
    BY <2>1, <2>2
  <2>4. \A k \in 1 .. Len(kids) : new[k].node = kids[k] /\ new[k].under = x.id
    BY <2>2
  <2> HIDE DEF new, R
  <2>5. new = [k \in 1 .. Len(kids) |-> new[k]]
    BY <2>2
  <2>6. new \in Seq(R) /\ Len(new) = Len(kids)
    BY <1>7, <2>3, <2>5
  <2> QED  BY <2>4, <2>6
<1> HIDE DEF new, R
<1> DEFINE both == new \o s.todo
<1>10. /\ both \in Seq(R) /\ Len(both) = Len(kids) + Len(s.todo)
       /\ \A k \in 1 .. Len(kids) : both[k] = new[k]
       /\ \A k \in 1 .. Len(s.todo) : both[Len(kids) + k] = s.todo[k]
       /\ \A k \in 1 .. Len(both) : k \in 1 .. Len(kids) \/ k - Len(kids) \in 1 .. Len(s.todo)
       /\ \A k \in 1 .. Len(both) : k \notin 1 .. Len(kids) => both[k] = s.todo[k - Len(kids)]
  <2> DEFINE q == s.todo
             n == Len(kids)
  <2>1. q \in Seq(R) /\ new \in Seq(R) /\ Len(new) = n /\ n \in Nat /\ Len(q) \in Nat
    BY <1>1, <1>7, <1>9
  <2> HIDE DEF q, n
  <2>2. both = new \o q
    BY DEF q, both
  <2> HIDE DEF both
  <2>3. both \in Seq(R) /\ Len(both) = n + Len(q)
    BY <2>1, <2>2, ConcatProperties
  <2>4. \A k \in 1 .. n : both[k] = new[k]
    BY <2>1, <2>2
  <2>5. \A k \in 1 .. Len(q) : both[n + k] = q[k]
    BY <2>1, <2>2
  <2>6. \A k \in 1 .. Len(both) : k \notin 1 .. n => k - n \in 1 .. Len(q) /\ n + (k - n) = k
    BY <2>1, <2>3
  <2>7. \A k \in 1 .. Len(both) : k \notin 1 .. n => both[k] = q[k - n]
    BY <2>5, <2>6
  <2> QED  BY <2>3, <2>4, <2>5, <2>6, <2>7 DEF q, n
<1> HIDE DEF both
<1> DEFINE r == [tree |-> s.tree, made |-> s.made, pending |-> rest, todo |-> both]
<1>11. Taken(s, x) = r
  BY <1>1, <1>4 DEF both
<1>12. \A k \in 1 .. Len(both) : \E p \in s.tree : p.id = both[k].under /\ p.label = both[k].node.parent
  <2> TAKE k \in 1 .. Len(both)
  <2>1. CASE k \in 1 .. Len(kids)
    BY <1>8, <1>9, <1>10, <2>1
  <2>2. CASE k \notin 1 .. Len(kids)
    BY <1>1, <1>10, <2>2
  <2> QED  BY <2>1, <2>2
<1>13. r \in LinkStates
  BY <1>1, <1>6, <1>10, <1>12, StateIs DEF R
<1>14. r.tree = s.tree /\ r.pending = rest /\ r.todo = both
  OBVIOUS
<1> HIDE DEF r
<1>15. Size(r) = Size(s) /\ Len(r.todo) >= Len(s.todo)
  <2> DEFINE a == Len(kids)
             b == Len(rest)
             c == Len(s.pending)
             d == Len(s.todo)
             e == Len(both)
  <2>1. a \in Nat /\ b \in Nat /\ c \in Nat /\ d \in Nat /\ a + b = c /\ e = a + d
    BY <1>1, <1>6, <1>7, <1>10
  <2>2. Size(r) = b + e /\ Size(s) = c + d /\ Len(r.todo) = e
    BY <1>14 DEF Size
  <2> HIDE DEF a, b, c, d, e
  <2>3. b + e = c + d /\ e >= d
    BY <2>1
  <2> QED  BY <2>2, <2>3 DEF d
<1>16. ASSUME NEW n \in AllObjects, Waits(s, n)  PROVE Waits(r, n)
  <2>1. CASE \E k \in 1 .. Len(s.pending) : s.pending[k] = n
    <3>1. PICK k \in 1 .. Len(s.pending) : s.pending[k] = n
      BY <2>1
    <3>2. CASE k \in mine
      <4>1. PICK p \in 1 .. Len(kids) : kids[p] = n
        BY <1>6, <3>1, <3>2
      <4>2. p \in 1 .. Len(both) /\ both[p].node = n
        BY <1>1, <1>7, <1>9, <1>10, <4>1
      <4> QED  BY <1>14, <4>2 DEF Waits
    <3>3. CASE k \notin mine
      <4>1. PICK p \in 1 .. Len(rest) : rest[p] = n
        BY <1>6, <3>1, <3>3
      <4> QED  BY <1>14, <4>1 DEF Waits
    <3> QED  BY <3>2, <3>3
  <2>2. CASE \E k \in 1 .. Len(s.todo) : s.todo[k].node = n
    <3>1. PICK k \in 1 .. Len(s.todo) : s.todo[k].node = n
      BY <2>2
    <3>2. Len(kids) + k \in 1 .. Len(both) /\ both[Len(kids) + k].node = n
      BY <1>1, <1>7, <1>10, <3>1
    <3> QED  BY <1>14, <3>2 DEF Waits
  <2> QED  BY <1>16, <2>1, <2>2 DEF Waits
<1>17. Follows(s, r)
  BY <1>14, <1>16 DEF Follows, Grows
<1>18. ASSUME NEW k \in 1 .. Len(s.pending), s.pending[k].parent = x.label
       PROVE  Len(r.todo) > Len(s.todo)
  <2>1. k \in mine
    BY <1>5, <1>18
  <2>2. PICK p \in 1 .. Len(kids) : kids[p] = s.pending[k]
    BY <1>6, <2>1
  <2>3. Len(kids) > 0
    BY <1>7, <2>2
  <2> QED  BY <1>1, <1>7, <1>10, <1>14, <2>3
<1> QED  BY <1>11, <1>13, <1>14, <1>15, <1>17, <1>18

\* A tree of the same shape is one.
LEMMA SameShape ==
    ASSUME NEW t, NEW c, IsTree(t, c), NEW r, r \subseteq Node,
           \A n \in t : \E u \in r : u.id = n.id /\ u.label = n.label,
           \A u \in r : \E n \in t :
               u.id = n.id /\ u.label = n.label /\ u.up = n.up /\ u.subid = n.subid,
           \A u, v \in r : u.id = v.id => u = v
    PROVE  IsTree(r, c)
<1>1. ASSUME NEW u \in r  PROVE u.id <= c /\ (IsRoot(u) \/ Hangs(r, u))
  <2>1. PICK n \in t : u.id = n.id /\ u.label = n.label /\ u.up = n.up /\ u.subid = n.subid
    OBVIOUS
  <2>2. n.id <= c /\ (IsRoot(n) \/ Hangs(t, n))
    BY DEF IsTree
  <2>3. CASE IsRoot(n)
    BY <2>1, <2>2, <2>3 DEF IsRoot
  <2>4. CASE Hangs(t, n)
    <3>1. PICK p \in t, o \in AllObjects :
              p.id = n.up /\ p.id < n.id /\ o.label = n.label /\ o.parent = p.label
              /\ o.subid = n.subid
      BY <2>4 DEF Hangs
    <3>2. PICK q \in r : q.id = p.id /\ q.label = p.label
      OBVIOUS
    <3>3. Hangs(r, u)
      BY <2>1, <3>1, <3>2 DEF Hangs
    <3> QED  BY <2>1, <2>2, <3>3
  <2> QED  BY <2>2, <2>3, <2>4
<1>2. ASSUME NEW u \in r, NEW v \in r, u.label = v.label  PROVE u = v
  <2>1. PICK n \in t : u.id = n.id /\ u.label = n.label
    OBVIOUS
  <2>2. PICK o \in t : v.id = o.id /\ v.label = o.label
    OBVIOUS
  <2>3. n.label = o.label
    BY <1>2, <2>1, <2>2
  <2>4. n = o
    BY <2>3, NodesAre
  <2> QED  BY <2>1, <2>2, <2>4
<1> QED  BY <1>1, <1>2 DEF IsTree

\* An object that was known gets another module.
LEMMA KnownIs ==
    ASSUME NEW t, NEW c, IsTree(t, c), NEW u \in t, NEW m \in STRING
    PROVE  LET x == [u EXCEPT !.mods = @ \cup {m}]
               r == (t \ {u}) \cup {x}
           IN  /\ IsTree(r, c) /\ Grows(t, r) /\ x \in r
               /\ x.id = u.id /\ x.label = u.label /\ m \in x.mods
<1> DEFINE x == [u EXCEPT !.mods = @ \cup {m}]
           r == (t \ {u}) \cup {x}
<1>1. t \subseteq Node
  BY DEF IsTree
<1>2. u \in Node
  BY <1>1
<1>3. /\ x \in Node /\ x.id = u.id /\ x.label = u.label /\ x.up = u.up /\ x.subid = u.subid
      /\ x.mods = u.mods \cup {m}
  BY <1>2 DEF Node
<1> HIDE DEF x
<1>4. r \subseteq Node
  BY <1>1, <1>3
<1>5. \A n \in t : \E v \in r : v.id = n.id /\ v.label = n.label /\ n.mods \subseteq v.mods
  <2> TAKE n \in t
  <2>1. CASE n = u
    BY <1>3, <2>1
  <2>2. CASE n # u
    BY <2>2
  <2> QED  BY <2>1, <2>2
<1>6. \A v \in r : \E n \in t :
          v.id = n.id /\ v.label = n.label /\ v.up = n.up /\ v.subid = n.subid
  BY <1>3
<1>7. \A v, w \in r : v.id = w.id => v = w
  BY <1>3, NodesAre
<1> HIDE DEF r
<1>8. IsTree(r, c)
  BY <1>4, <1>5, <1>6, <1>7, SameShape
<1>9. x \in r
  BY DEF r
<1> QED  BY <1>3, <1>5, <1>8, <1>9 DEF Grows, x, r

\* A new node below the parent of its object.
LEMMA AddedIs ==
    ASSUME NEW t, NEW c \in Nat, IsTree(t, c), NEW n \in AllObjects,
           NEW p \in t, p.label = n.parent, \A u \in t : u.label # n.label
    PROVE  LET x == [id |-> c + 1, label |-> n.label, up |-> p.id, subid |-> n.subid,
                     mods |-> {n.mod}]
           IN  IsTree(t \cup {x}, c + 1) /\ Grows(t, t \cup {x})
<1> DEFINE x == [id |-> c + 1, label |-> n.label, up |-> p.id, subid |-> n.subid,
                 mods |-> {n.mod}]
           r == t \cup {x}
<1>1. n.label \in STRING /\ n.subid \in Nat /\ n.mod \in STRING
  BY ObjectsAre
<1>2. p.id \in Nat /\ p.id <= c
  BY NodesAre
<1>3. x \in Node
  BY <1>1, <1>2 DEF Node
<1>4. /\ x.id = c + 1 /\ x.label = n.label /\ x.up = p.id /\ x.subid = n.subid
      /\ x.mods = {n.mod}
  OBVIOUS
<1> HIDE DEF x
<1>5. Hangs(r, x)
  BY <1>2, <1>4 DEF Hangs
<1>6. ASSUME NEW u \in t  PROVE u.id <= c + 1 /\ u.id # x.id /\ (IsRoot(u) \/ Hangs(r, u))
  <2>1. u.id \in Nat /\ u.id <= c
    BY NodesAre
  <2>2. IsRoot(u) \/ Hangs(t, u)
    BY DEF IsTree
  <2>3. Hangs(t, u) => Hangs(r, u)
    BY DEF Hangs
  <2> QED  BY <1>4, <2>1, <2>2, <2>3
<1>7. \A u, v \in r : u.id = v.id \/ u.label = v.label => u = v
  BY <1>4, <1>6, NodesAre
<1>8. r \subseteq Node
  BY <1>3 DEF IsTree
<1>9. ASSUME NEW u \in r  PROVE u.id <= c + 1 /\ (IsRoot(u) \/ Hangs(r, u))
  <2>1. CASE u \in t
    BY <1>6, <2>1
  <2>2. CASE u = x
    BY <1>4, <1>5, <2>2
  <2> QED  BY <2>1, <2>2
<1>10. IsTree(r, c + 1)
  BY <1>7, <1>8, <1>9 DEF IsTree
<1>11. Grows(t, r)
  BY DEF Grows
<1> QED  BY <1>10, <1>11 DEF x

\* The first of what is to be placed is, and what is below it will be.
LEMMA PlacedIs ==
    ASSUME Consistent, NEW s \in LinkStates, s.todo # <<>>
    PROVE  /\ Placed(s) \in LinkStates /\ Follows(s, Placed(s))
           /\ Size(Placed(s)) = Size(s) - 1
<1> DEFINE n == s.todo[1].node
           peers == {t \in s.tree : t.up = s.todo[1].under /\ t.subid = n.subid}
           known == Newest(peers)
           tp == IF Same(peers, n)
                 THEN [known EXCEPT !.mods = @ \cup {n.mod}]
                 ELSE [id |-> s.made + 1, label |-> n.label, up |-> s.todo[1].under,
                       subid |-> n.subid, mods |-> {n.mod}]
           after == IF Same(peers, n)
                    THEN [s EXCEPT !.tree = (@ \ {known}) \cup {tp}, !.todo = Tail(@)]
                    ELSE [s EXCEPT !.tree = @ \cup {tp}, !.made = @ + 1, !.todo = Tail(@)]
           R == [node : AllObjects, under : Nat]
<1>1. /\ s = [tree |-> s.tree, made |-> s.made, pending |-> s.pending, todo |-> s.todo]
      /\ IsTree(s.tree, s.made) /\ s.made \in Nat
      /\ s.pending \in Seq(AllObjects) /\ s.todo \in Seq(R)
      /\ Len(s.pending) \in Nat /\ Len(s.todo) \in Nat
      /\ \A k \in 1 .. Len(s.todo) :
             /\ s.todo[k].node \in AllObjects
             /\ \E p \in s.tree : p.id = s.todo[k].under /\ p.label = s.todo[k].node.parent
  BY StatesAre
<1> HIDE DEF R
<1>2. 1 \in 1 .. Len(s.todo)
  BY <1>1
<1>3. n \in AllObjects
  BY <1>1, <1>2
<1>4. PICK p \in s.tree : p.id = s.todo[1].under /\ p.label = n.parent
  BY <1>1, <1>2
<1>5. Placed(s) = Taken(after, tp)
  BY DEF Placed
<1>6. peers = {u \in s.tree : u.label = n.label}
  BY <1>1, <1>3, <1>4, PlaceIs
<1> DEFINE later == Tail(s.todo)
<1>7. /\ later \in Seq(R) /\ Len(later) = Len(s.todo) - 1
      /\ \A k \in 1 .. Len(later) : later[k] = s.todo[k + 1] /\ k + 1 \in 1 .. Len(s.todo)
      /\ \A k \in 1 .. Len(s.todo) : k # 1 => k - 1 \in 1 .. Len(later) /\ later[k - 1] = s.todo[k]
  <2> DEFINE q == s.todo
  <2>1. q \in Seq(R) /\ q # <<>>
    BY <1>1
  <2> HIDE DEF q
  <2>2. Tail(q) \in Seq(R) /\ Len(Tail(q)) = Len(q) - 1 /\ Len(q) \in Nat
    BY <2>1
  <2>3. \A k \in 1 .. Len(Tail(q)) : Tail(q)[k] = q[k + 1]
    BY <2>1
  <2>4. \A k \in 1 .. Len(Tail(q)) : k + 1 \in 1 .. Len(q)
    BY <2>2
  <2>5. \A k \in 1 .. Len(q) : k # 1 => k - 1 \in 1 .. Len(Tail(q)) /\ (k - 1) + 1 = k
    BY <2>2
  <2>6. \A k \in 1 .. Len(q) : k # 1 => Tail(q)[k - 1] = q[k]
    BY <2>3, <2>5
  <2> QED  BY <2>2, <2>3, <2>4, <2>5, <2>6 DEF q
<1> HIDE DEF later
\* The tree has the object in either case.
<1>8. /\ IsTree(after.tree, after.made) /\ Grows(s.tree, after.tree) /\ after.made \in Nat
      /\ tp \in after.tree /\ tp.label = n.label /\ n.mod \in tp.mods
      /\ after = [tree |-> after.tree, made |-> after.made, pending |-> s.pending, todo |-> later]
  <2>1. CASE Same(peers, n)
    <3>1. PICK u \in peers : TRUE
      BY <2>1 DEF Same
    <3>2. u \in s.tree /\ u.label = n.label /\ u.id \in Nat
      BY <1>1, <1>6, NodesAre
    <3>3. peers = {u}
      BY <1>1, <1>6, <3>2, LabelIs
    <3>4. known = u
      BY <3>2, <3>3, OnlyOne
    <3> DEFINE x == [u EXCEPT !.mods = @ \cup {n.mod}]
               r == (s.tree \ {u}) \cup {x}
    <3>5. tp = x /\ after = [s EXCEPT !.tree = r, !.todo = later]
      BY <2>1, <3>4 DEF later
    <3>6. n.mod \in STRING
      BY <1>3, ObjectsAre
    <3>7. /\ IsTree(r, s.made) /\ Grows(s.tree, r) /\ x \in r
          /\ x.label = u.label /\ n.mod \in x.mods
      <4> DEFINE m == n.mod
                 t == s.tree
                 c == s.made
      <4>1. IsTree(t, c) /\ u \in t /\ m \in STRING
        BY <1>1, <3>2, <3>6
      <4> HIDE DEF m, t, c
      <4>2. LET y == [u EXCEPT !.mods = @ \cup {m}]
                z == (t \ {u}) \cup {y}
            IN  /\ IsTree(z, c) /\ Grows(t, z) /\ y \in z
                /\ y.id = u.id /\ y.label = u.label /\ m \in y.mods
        BY <4>1, KnownIs
      <4> QED  BY <4>2 DEF m, t, c
    <3> HIDE DEF x, r, tp, after
    <3>8. after.tree = r /\ after.made = s.made
          /\ after = [tree |-> r, made |-> s.made, pending |-> s.pending, todo |-> later]
      BY <1>1, <3>5
    <3> QED  BY <1>1, <3>2, <3>5, <3>7, <3>8
  <2>2. CASE ~Same(peers, n)
    <3>1. \A u \in s.tree : u.label # n.label
      <4> SUFFICES ASSUME NEW u \in s.tree, u.label = n.label  PROVE Same(peers, n)
        BY <2>2
      <4>1. peers = {u} /\ u.id \in Nat
        BY <1>1, <1>6, LabelIs, NodesAre
      <4>2. known = u
        BY <4>1, OnlyOne
      <4> HIDE DEF peers
      <4> QED  BY <4>1, <4>2 DEF Same
    <3> DEFINE x == [id |-> s.made + 1, label |-> n.label, up |-> p.id, subid |-> n.subid,
                     mods |-> {n.mod}]
    <3>2. tp = x /\ after = [s EXCEPT !.tree = @ \cup {x}, !.made = @ + 1, !.todo = later]
      BY <1>4, <2>2 DEF later
    <3>3. IsTree(s.tree \cup {x}, s.made + 1) /\ Grows(s.tree, s.tree \cup {x})
      <4> DEFINE t == s.tree
                 c == s.made
                 o == n
      <4>1. /\ IsTree(t, c) /\ c \in Nat /\ o \in AllObjects /\ p \in t /\ p.label = o.parent
            /\ \A u \in t : u.label # o.label
        BY <1>1, <1>3, <1>4, <3>1
      <4> HIDE DEF t, c, o
      <4>2. LET y == [id |-> c + 1, label |-> o.label, up |-> p.id, subid |-> o.subid,
                      mods |-> {o.mod}]
            IN  IsTree(t \cup {y}, c + 1) /\ Grows(t, t \cup {y})
        BY <4>1, AddedIs
      <4> QED  BY <4>2 DEF t, c, o
    <3>4. x.label = n.label /\ n.mod \in x.mods
      OBVIOUS
    <3> HIDE DEF x, tp, after
    <3>5. after.tree = s.tree \cup {x} /\ after.made = s.made + 1
          /\ after = [tree |-> after.tree, made |-> after.made, pending |-> s.pending,
                      todo |-> later]
      BY <1>1, <3>2
    <3> QED  BY <1>1, <3>2, <3>3, <3>4, <3>5
  <2> QED  BY <2>1, <2>2
<1> HIDE DEF tp, after, peers, known
<1>9. after.pending = s.pending /\ after.todo = later
  BY <1>8
<1>10. \A k \in 1 .. Len(later) :
           \E u \in after.tree : u.id = later[k].under /\ u.label = later[k].node.parent
  <2> TAKE k \in 1 .. Len(later)
  <2>1. k + 1 \in 1 .. Len(s.todo) /\ later[k] = s.todo[k + 1]
    BY <1>7
  <2>2. PICK q \in s.tree : q.id = s.todo[k + 1].under /\ q.label = s.todo[k + 1].node.parent
    BY <1>1, <2>1
  <2>3. PICK u \in after.tree : u.id = q.id /\ u.label = q.label
    BY <1>8 DEF Grows
  <2> QED  BY <2>1, <2>2, <2>3
<1>11. after \in LinkStates
  <2> DEFINE t == after.tree
             c == after.made
             q == s.pending
  <2>1. /\ IsTree(t, c) /\ c \in Nat /\ q \in Seq(AllObjects) /\ later \in Seq(R)
        /\ \A k \in 1 .. Len(later) :
               \E u \in t : u.id = later[k].under /\ u.label = later[k].node.parent
        /\ after = [tree |-> t, made |-> c, pending |-> q, todo |-> later]
    BY <1>1, <1>7, <1>8, <1>10
  <2> HIDE DEF t, c, q
  <2> QED  BY <2>1, StateIs DEF R
<1>12. IsLinked(after.tree, n)
  BY <1>8 DEF IsLinked
<1>13. Follows(s, after)
  <2>1. ASSUME NEW o \in AllObjects, Waits(s, o)
        PROVE  Waits(after, o) \/ IsLinked(after.tree, o)
    <3>1. CASE \E k \in 1 .. Len(s.pending) : s.pending[k] = o
      BY <1>9, <3>1 DEF Waits
    <3>2. CASE \E k \in 1 .. Len(s.todo) : s.todo[k].node = o
      <4>1. PICK k \in 1 .. Len(s.todo) : s.todo[k].node = o
        BY <3>2
      <4>2. CASE k = 1
        BY <1>12, <4>1, <4>2
      <4>3. CASE k # 1
        <5>1. k - 1 \in 1 .. Len(later) /\ later[k - 1].node = o
          BY <1>7, <4>1, <4>3
        <5> QED  BY <1>9, <5>1 DEF Waits
      <4> QED  BY <4>2, <4>3
    <3> QED  BY <2>1, <3>1, <3>2 DEF Waits
  <2> QED  BY <1>8, <2>1 DEF Follows
<1>14. Size(after) = Size(s) - 1
  <2> DEFINE b == Len(s.pending)
             d == Len(s.todo)
             e == Len(later)
  <2>1. b \in Nat /\ d \in Nat /\ e = d - 1
    BY <1>1, <1>7
  <2>2. Size(after) = b + e /\ Size(s) = b + d
    BY <1>9 DEF Size
  <2> HIDE DEF b, d, e
  <2> QED  BY <2>1, <2>2
<1> DEFINE r == Taken(after, tp)
<1>15. r \in LinkStates /\ Follows(after, r) /\ Size(r) = Size(after)
  BY <1>8, <1>11, TakenIs
<1> HIDE DEF r
<1>16. Follows(s, r)
  BY <1>13, <1>15, FollowsOn
<1> QED  BY <1>5, <1>14, <1>15, <1>16 DEF r

\* A round places an object, when there is one to place.
LEMMA PlaceNextIs ==
    ASSUME Consistent, NEW s \in LinkStates
    PROVE  /\ PlaceNext(s) \in LinkStates /\ Follows(s, PlaceNext(s))
           /\ s.todo = <<>> => PlaceNext(s) = s
           /\ s.todo # <<>> => Size(PlaceNext(s)) = Size(s) - 1
<1>1. CASE s.todo = <<>>
  BY <1>1, FollowsSame DEF PlaceNext
<1>2. CASE s.todo # <<>>
  <2>1. PlaceNext(s) = Placed(s)
    BY <1>2 DEF PlaceNext
  <2> QED  BY <1>2, <2>1, PlacedIs
<1> QED  BY <1>1, <1>2

\* How much there is left, and to place.
LEMMA SizeIs ==
    ASSUME NEW s \in LinkStates
    PROVE  /\ Size(s) \in Nat /\ Len(s.pending) \in Nat /\ Len(s.pending) <= Size(s)
           /\ s.todo = <<>> => Size(s) = Len(s.pending)
           /\ Size(s) = 0 => s.todo = <<>>
<1> DEFINE a == Len(s.pending)
           b == Len(s.todo)
<1>1. a \in Nat /\ b \in Nat /\ (b = 0 => s.todo = <<>>) /\ (s.todo = <<>> => b = 0)
  <2> DEFINE q == s.todo
             R == [node : AllObjects, under : Nat]
  <2>1. q \in Seq(R)
    BY StatesAre
  <2> HIDE DEF q, R
  <2>2. (Len(q) = 0 => q = <<>>) /\ (q = <<>> => Len(q) = 0)
    BY <2>1
  <2> QED  BY <2>2, StatesAre DEF q
<1>2. Size(s) = a + b
  BY DEF Size
<1> HIDE DEF a, b
<1>3. a + b \in Nat /\ a <= a + b /\ (a + b = 0 => b = 0) /\ (b = 0 => a + b = a)
  BY <1>1
<1> QED  BY <1>1, <1>2, <1>3 DEF a

\* What the rounds of do_subtree keep.
Progress(s, start, r, k) ==
    /\ r \in LinkStates /\ Follows(s, r) /\ Size(r) <= Size(s)
    /\ r.todo = <<>> \/ Size(r) <= Size(s) - k
    /\ k >= 1 /\ start.todo # <<>> => Size(r) < Size(s)

\* do_subtree places whatever belongs below a node, and below that.
LEMMA DoSubtreeIs ==
    ASSUME Consistent, NEW s \in LinkStates, s.todo = <<>>, NEW x \in s.tree
    PROVE  LET r == DoSubtree(s, x)
           IN  /\ r \in LinkStates /\ r.todo = <<>> /\ Follows(s, r)
               /\ Len(r.pending) <= Len(s.pending)
               /\ (\E k \in 1 .. Len(s.pending) : s.pending[k].parent = x.label) =>
                      Len(r.pending) < Len(s.pending)
<1> DEFINE n == Len(s.pending)
           S == LinkStates
           start == Taken(s, x)
           Rounds(f) == [k \in 0 .. n |-> IF k = 0 THEN start ELSE PlaceNext(f[k - 1])]
           rounds == CHOOSE f : f = Rounds(f)
           g == [v \in S |-> PlaceNext(v)]
<1>1. n \in Nat /\ Size(s) = n
  BY SizeIs
<1>2. /\ start \in S /\ Follows(s, start) /\ Size(start) = n
      /\ (\E k \in 1 .. n : s.pending[k].parent = x.label) => start.todo # <<>>
  <2> DEFINE r == start
             q == s.todo
             d == r.todo
  <2>1. /\ r \in LinkStates /\ Follows(s, r) /\ Size(r) = Size(s)
        /\ (\E k \in 1 .. Len(s.pending) : s.pending[k].parent = x.label) => Len(d) > Len(q)
    BY TakenIs
  <2> HIDE DEF r, d, start
  <2>2. q = <<>> => Len(q) = 0
    OBVIOUS
  <2>3. Len(d) > Len(q) => d # <<>>
    <3> HIDE DEF q
    <3> SUFFICES ASSUME Len(d) > Len(q), d = <<>>  PROVE FALSE
      OBVIOUS
    <3>1. Len(d) = 0
      BY <3>1
    <3>2. Len(q) = 0
      BY <2>2 DEF q
    <3> QED  BY <3>1, <3>2
  <2> QED  BY <1>1, <2>1, <2>3 DEF r, d
<1> HIDE DEF start
<1>3. g \in [S -> S] /\ \A v \in S : g[v] = PlaceNext(v)
  BY PlaceNextIs
<1> HIDE DEF g
<1>4. PICK f \in [0 .. n -> S] : f[0] = start /\ \A k \in 1 .. n : f[k] = g[f[k - 1]]
  <2> HIDE DEF S, n
  <2>1. \E f : Iterates(f, S, start, n, g)
    BY <1>1, <1>2, <1>3, IterationOn
  <2> QED  BY <2>1 DEF Iterates
<1>5. \E h : h = Rounds(h)
  <2> HIDE DEF S
  <2>1. ASSUME NEW k \in 0 .. n  PROVE f[k] = IF k = 0 THEN start ELSE PlaceNext(f[k - 1])
    <3>1. CASE k = 0
      BY <1>4, <3>1
    <3>2. CASE k # 0
      <4>1. k \in 1 .. n /\ k - 1 \in 0 .. n
        BY <1>1, <3>2
      <4> HIDE DEF n
      <4>2. f[k - 1] \in S
        BY <1>4, <4>1
      <4> QED  BY <1>3, <1>4, <3>2, <4>1, <4>2
    <3> QED  BY <3>1, <3>2
  <2>2. f = Rounds(f)
    <3> HIDE DEF n
    <3> QED  BY <1>4, <2>1
  <2> HIDE DEF Rounds
  <2> QED  BY <2>2
<1>6. rounds = Rounds(rounds)
  <2> HIDE DEF Rounds
  <2> QED  BY <1>5
<1>7. rounds[0] = start /\ \A k \in 1 .. n : rounds[k] = PlaceNext(rounds[k - 1])
  <2>1. \A k \in 0 .. n : rounds[k] = IF k = 0 THEN start ELSE PlaceNext(rounds[k - 1])
    <3> HIDE DEF rounds, n
    <3> QED  BY <1>6
  <2> HIDE DEF rounds
  <2> QED  BY <1>1, <2>1
<1>8. DoSubtree(s, x) = rounds[n]
  BY DEF DoSubtree, start
<1> HIDE DEF rounds, Rounds
<1> DEFINE Good(k) == Progress(s, start, rounds[k], k)
           T == {k \in Nat : k <= n => Good(k)}
<1>9. 0 \in T
  <2>1. Good(0)
    <3> HIDE DEF n
    <3> QED  BY <1>1, <1>2, <1>7 DEF Progress
  <2> HIDE DEF Good
  <2> QED  BY <2>1
<1>10. ASSUME NEW k \in Nat, k \in T, k + 1 <= n
       PROVE  Good(k + 1)
  <2>1. k + 1 \in 1 .. n /\ (k + 1) - 1 = k /\ k <= n
    BY <1>1, <1>10
  <2> DEFINE u == rounds[k]
             v == rounds[k + 1]
  <2>2. v = PlaceNext(u)
    BY <1>7, <2>1
  <2>3. Progress(s, start, u, k)
    BY <1>10, <2>1
  <2> HIDE DEF u, v, n
  <2>4. /\ u \in LinkStates /\ Follows(s, u) /\ Size(u) <= n
        /\ u.todo = <<>> \/ Size(u) <= n - k
        /\ k >= 1 /\ start.todo # <<>> => Size(u) < n
    BY <1>1, <2>3 DEF Progress
  <2>5. v \in LinkStates /\ Follows(u, v) /\ Size(u) \in Nat
    BY <2>2, <2>4, PlaceNextIs, SizeIs
  <2>6. Follows(s, v)
    BY <2>4, <2>5, FollowsOn
  <2>7. CASE u.todo = <<>>
    <3>1. v = u
      BY <2>2, <2>4, <2>7, PlaceNextIs
    <3>2. k = 0 => start = u
      BY <1>7 DEF u
    <3>3. start.todo # <<>> => k >= 1
      BY <2>7, <3>2
    <3>4. Size(v) <= n /\ v.todo = <<>> /\ (start.todo # <<>> => Size(v) < n)
      BY <2>4, <2>7, <3>1, <3>3
    <3> QED  BY <1>1, <2>5, <2>6, <3>4 DEF Progress, v
  <2>8. CASE u.todo # <<>>
    <3>1. Size(v) = Size(u) - 1
      BY <2>2, <2>4, <2>8, PlaceNextIs
    <3>2. Size(v) <= n /\ Size(v) <= n - (k + 1) /\ Size(v) < n
      BY <1>1, <2>4, <2>5, <2>8, <3>1
    <3> QED  BY <1>1, <2>5, <2>6, <3>2 DEF Progress, v
  <2> QED  BY <2>7, <2>8
<1>11. n \in T
  <2>1. \A k \in Nat : k \in T => k + 1 \in T
    <3> HIDE DEF Good
    <3> QED  BY <1>10
  <2> HIDE DEF T
  <2> QED  BY <1>1, <1>9, <2>1, InductionOn
<1> DEFINE r == rounds[n]
<1>12. Progress(s, start, r, n)
  BY <1>1, <1>11
<1> HIDE DEF r, T, n
<1>13. /\ r \in LinkStates /\ Follows(s, r) /\ Size(r) <= n
       /\ r.todo = <<>> \/ Size(r) <= 0
       /\ n >= 1 /\ start.todo # <<>> => Size(r) < n
  BY <1>1, <1>12 DEF Progress
<1>14. r.todo = <<>> /\ Size(r) = Len(r.pending)
  <2>1. Size(r) \in Nat /\ (Size(r) = 0 => r.todo = <<>>)
    BY <1>13, SizeIs
  <2>2. r.todo = <<>>
    BY <1>13, <2>1
  <2> QED  BY <1>13, <2>2, SizeIs
<1>15. (\E k \in 1 .. n : s.pending[k].parent = x.label) => Len(r.pending) < n
  <2> SUFFICES ASSUME NEW k \in 1 .. n, s.pending[k].parent = x.label
               PROVE  Len(r.pending) < n
    OBVIOUS
  <2>1. n >= 1
    BY <1>1
  <2> QED  BY <1>2, <1>13, <1>14, <2>1
<1>16. DoSubtree(s, x) = r
  BY <1>8 DEF r
<1> QED  BY <1>13, <1>14, <1>15, <1>16 DEF n

\* The states with nothing to place that follow one.
After(s) == {r \in LinkStates : r.todo = <<>> /\ Follows(s, r)}

\* Linking below a label places what belongs there, if the label is in the tree.
LEMMA LinkBelowIs ==
    ASSUME Consistent, NEW s \in LinkStates, s.todo = <<>>, NEW label, NEW m
    PROVE  LET r == LinkBelow(s, label, m)
           IN  /\ r \in After(s) /\ Len(r.pending) <= Len(s.pending)
               /\ /\ m \notin Modules
                  /\ \E u \in s.tree : u.label = label
                  /\ \E k \in 1 .. Len(s.pending) : s.pending[k].parent = label
                  => Len(r.pending) < Len(s.pending)
<1> DEFINE found == Found(s.tree, label, m)
           r == LinkBelow(s, label, m)
<1>1. Len(s.pending) \in Nat
  BY SizeIs
<1>2. CASE found = {}
  <2>1. r = s
    BY <1>2 DEF LinkBelow
  <2>2. s \in After(s)
    BY FollowsSame DEF After
  <2>3. m \notin Modules => \A u \in s.tree : u.label # label
    BY <1>2 DEF Found
  <2> QED  BY <1>1, <2>1, <2>2, <2>3
<1>3. CASE found # {}
  <2>1. PICK u \in found : TRUE
    BY <1>3
  <2>2. u \in s.tree /\ u.label = label /\ found \subseteq {v \in s.tree : v.label = u.label}
    BY <2>1 DEF Found
  <2>3. IsTree(s.tree, s.made)
    BY StatesAre
  <2>4. {v \in s.tree : v.label = u.label} = {u} /\ u.id \in Nat
    BY <2>2, <2>3, LabelIs, NodesAre
  <2>5. found = {u}
    BY <2>1, <2>2, <2>4
  <2>6. Newest(found) = u
    BY <2>4, <2>5, OnlyOne
  <2>7. r = DoSubtree(s, u)
    <3> HIDE DEF found
    <3>1. r = IF found = {} THEN s ELSE DoSubtree(s, Newest(found))
      BY DEF LinkBelow, found
    <3> QED  BY <1>3, <2>6, <3>1
  <2> HIDE DEF r
  <2>8. /\ r \in LinkStates /\ r.todo = <<>> /\ Follows(s, r)
        /\ Len(r.pending) <= Len(s.pending)
        /\ (\E k \in 1 .. Len(s.pending) : s.pending[k].parent = u.label) =>
               Len(r.pending) < Len(s.pending)
    BY <2>2, <2>7, DoSubtreeIs
  <2> QED  BY <2>2, <2>8 DEF r, After
<1> QED  BY <1>2, <1>3

\* States that follow each other, with nothing to place.
LEMMA AfterOn ==
    ASSUME NEW s, NEW r \in After(s), NEW q \in After(r)
    PROVE  q \in After(s)
BY FollowsOn DEF After

\* Linking below all that is imported.
LEMMA BelowImportsIs ==
    ASSUME Consistent, NEW s \in LinkStates, s.todo = <<>>,
           NEW imports, Len(imports) \in Nat
    PROVE  BelowImports(s, imports) \in After(s)
<1> DEFINE n == Len(imports)
           S == After(s)
           Links(f) == [k \in 0 .. n |->
                            IF k = 0 THEN s
                            ELSE LinkBelow(f[k - 1], imports[k].label, imports[k].from)]
           links == CHOOSE f : f = Links(f)
           next == [k \in 1 .. n |-> [v \in S |-> LinkBelow(v, imports[k].label, imports[k].from)]]
<1>1. s \in S
  BY FollowsSame DEF After
<1>2. ASSUME NEW v \in S, NEW label, NEW m  PROVE LinkBelow(v, label, m) \in S
  <2>1. v \in LinkStates /\ v.todo = <<>>
    BY DEF After
  <2>2. LinkBelow(v, label, m) \in After(v)
    BY <2>1, LinkBelowIs
  <2> QED  BY <2>2, AfterOn
<1> HIDE DEF S
<1>3. /\ next \in [1 .. n -> [S -> S]]
      /\ \A k \in 1 .. n : \A v \in S :
             next[k][v] = LinkBelow(v, imports[k].label, imports[k].from)
  BY <1>2
<1> HIDE DEF next
<1>4. PICK f \in [0 .. n -> S] : f[0] = s /\ \A k \in 1 .. n : f[k] = next[k][f[k - 1]]
  <2>1. n \in Nat /\ s \in S /\ next \in [1 .. n -> [S -> S]]
    BY <1>1, <1>3
  <2> HIDE DEF n
  <2>2. \E f : Staged(f, S, s, n, next)
    BY <2>1, StagedOn
  <2> QED  BY <2>2 DEF Staged
<1>5. \E h : h = Links(h)
  <2>1. ASSUME NEW k \in 0 .. n
        PROVE  f[k] = IF k = 0 THEN s
                      ELSE LinkBelow(f[k - 1], imports[k].label, imports[k].from)
    <3>1. CASE k = 0
      BY <1>4, <3>1
    <3>2. CASE k # 0
      <4>1. k \in 1 .. n /\ k - 1 \in 0 .. n
        BY <3>2
      <4> HIDE DEF n
      <4>2. f[k - 1] \in S
        BY <1>4, <4>1
      <4> QED  BY <1>3, <1>4, <3>2, <4>1, <4>2
    <3> QED  BY <3>1, <3>2
  <2>2. f = Links(f)
    <3> HIDE DEF n
    <3> QED  BY <1>4, <2>1
  <2> HIDE DEF Links
  <2> QED  BY <2>2
<1>6. links = Links(links)
  <2> HIDE DEF Links
  <2> QED  BY <1>5
<1>7. /\ links[0] = s
      /\ \A k \in 1 .. n :
             links[k] = LinkBelow(links[k - 1], imports[k].label, imports[k].from)
  <2>1. \A k \in 0 .. n :
            links[k] = IF k = 0 THEN s
                       ELSE LinkBelow(links[k - 1], imports[k].label, imports[k].from)
    <3> HIDE DEF links, n
    <3> QED  BY <1>6
  <2> HIDE DEF links
  <2> QED  BY <2>1
<1>8. BelowImports(s, imports) = links[n]
  BY DEF BelowImports
<1> HIDE DEF links, Links, n
<1>9. \A k \in 1 .. n : links[k - 1] \in S => links[k] \in S
  BY <1>2, <1>7
<1>10. \A k \in 0 .. n : links[k] \in S
  <2>1. n \in Nat
    BY DEF n
  <2> QED  BY <1>1, <1>7, <1>9, <2>1, StaysIn
<1>11. n \in 0 .. n
  BY DEF n
<1> QED  BY <1>8, <1>10, <1>11 DEF S

\* ... and below the roots, which are in the tree.
LEMMA BelowRootsIs ==
    ASSUME Consistent, NEW s \in LinkStates, s.todo = <<>>, top \in Seq(Nat),
           \A k \in 1 .. Len(top) : \E u \in s.tree : u.id = top[k]
    PROVE  BelowRoots(s) \in After(s)
<1> DEFINE n == Len(top)
           S == After(s)
           Links(f) == [k \in 0 .. n |-> IF k = 0 THEN s ELSE DoSubtreeOf(f[k - 1], top[k])]
           links == CHOOSE f : f = Links(f)
           next == [k \in 1 .. n |-> [v \in S |-> DoSubtreeOf(v, top[k])]]
<1>1. s \in S /\ n \in Nat
  BY FollowsSame DEF After
<1>2. ASSUME NEW v \in S, NEW k \in 1 .. n  PROVE DoSubtreeOf(v, top[k]) \in S
  <2>1. v \in LinkStates /\ v.todo = <<>> /\ Follows(s, v)
    BY DEF After
  <2>2. \E u \in v.tree : u.id = top[k]
    BY <2>1 DEF Follows, Grows
  <2> DEFINE x == CHOOSE u \in v.tree : u.id = top[k]
  <2>3. x \in v.tree
    BY <2>2
  <2>4. DoSubtreeOf(v, top[k]) = DoSubtree(v, x)
    BY DEF DoSubtreeOf
  <2> HIDE DEF x
  <2>5. DoSubtree(v, x) \in After(v)
    BY <2>1, <2>3, DoSubtreeIs DEF After
  <2> QED  BY <2>4, <2>5, AfterOn
<1> HIDE DEF S
<1>3. /\ next \in [1 .. n -> [S -> S]]
      /\ \A k \in 1 .. n : \A v \in S : next[k][v] = DoSubtreeOf(v, top[k])
  BY <1>2
<1> HIDE DEF next
<1>4. PICK f \in [0 .. n -> S] : f[0] = s /\ \A k \in 1 .. n : f[k] = next[k][f[k - 1]]
  <2>1. n \in Nat /\ s \in S /\ next \in [1 .. n -> [S -> S]]
    BY <1>1, <1>3
  <2> HIDE DEF n
  <2>2. \E f : Staged(f, S, s, n, next)
    BY <2>1, StagedOn
  <2> QED  BY <2>2 DEF Staged
<1>5. \E h : h = Links(h)
  <2>1. ASSUME NEW k \in 0 .. n
        PROVE  f[k] = IF k = 0 THEN s ELSE DoSubtreeOf(f[k - 1], top[k])
    <3>1. CASE k = 0
      BY <1>4, <3>1
    <3>2. CASE k # 0
      <4>1. k \in 1 .. n /\ k - 1 \in 0 .. n
        BY <1>1, <3>2
      <4> HIDE DEF n
      <4>2. f[k - 1] \in S
        BY <1>4, <4>1
      <4> QED  BY <1>3, <1>4, <3>2, <4>1, <4>2
    <3> QED  BY <3>1, <3>2
  <2>2. f = Links(f)
    <3> HIDE DEF n
    <3> QED  BY <1>4, <2>1
  <2> HIDE DEF Links
  <2> QED  BY <2>2
<1>6. links = Links(links)
  <2> HIDE DEF Links
  <2> QED  BY <1>5
<1>7. /\ links[0] = s
      /\ \A k \in 1 .. n : links[k] = DoSubtreeOf(links[k - 1], top[k])
  <2>1. \A k \in 0 .. n : links[k] = IF k = 0 THEN s ELSE DoSubtreeOf(links[k - 1], top[k])
    <3> HIDE DEF links, n
    <3> QED  BY <1>6
  <2> HIDE DEF links
  <2> QED  BY <1>1, <2>1
<1>8. BelowRoots(s) = links[n]
  BY DEF BelowRoots
<1> HIDE DEF links, Links, n
<1>9. \A k \in 1 .. n : links[k - 1] \in S => links[k] \in S
  BY <1>2, <1>7
<1>10. \A k \in 0 .. n : links[k] \in S
  BY <1>1, <1>7, <1>9, StaysIn
<1>11. n \in 0 .. n
  BY <1>1
<1> QED  BY <1>8, <1>10, <1>11 DEF S

\* What two lists have, both of them have in one.
LEMMA HasBoth ==
    ASSUME NEW S, NEW a \in Seq(S), NEW b \in Seq(S), NEW n, Has(a, n) \/ Has(b, n)
    PROVE  Has(a \o b, n)
<1>1. /\ Len(a) \in Nat /\ Len(b) \in Nat /\ Len(a \o b) = Len(a) + Len(b)
      /\ \A k \in 1 .. Len(a) + Len(b) :
             (a \o b)[k] = IF k <= Len(a) THEN a[k] ELSE b[k - Len(a)]
  BY ConcatProperties
<1> DEFINE c == a \o b
           p == Len(a)
           q == Len(b)
<1>2. /\ p \in Nat /\ q \in Nat /\ Len(c) = p + q
      /\ \A k \in 1 .. p + q : c[k] = IF k <= p THEN a[k] ELSE b[k - p]
  BY <1>1
<1> HIDE DEF c, p, q
<1>3. CASE Has(a, n)
  <2>1. PICK k \in 1 .. p : a[k] = n
    BY <1>3 DEF Has, p
  <2>2. k \in 1 .. p + q /\ c[k] = n
    BY <1>2, <2>1
  <2> QED  BY <1>2, <2>2 DEF Has, c
<1>4. CASE Has(b, n)
  <2>1. PICK k \in 1 .. q : b[k] = n
    BY <1>4 DEF Has, q
  <2>2. p + k \in 1 .. p + q /\ ~(p + k <= p) /\ (p + k) - p = k
    BY <1>2, <2>1
  <2>3. c[p + k] = n
    BY <1>2, <2>1, <2>2
  <2> QED  BY <1>2, <2>2, <2>3 DEF Has, c
<1> QED  BY <1>3, <1>4

\* The list of imports is finite.
LEMMA ImportListIs ==
    ASSUME NEW m \in Modules
    PROVE  Len(ImportList(m)) \in Nat
<1> DEFINE L == [label : STRING, from : STRING]
           n == Len(Imports[m])
           group(x) == [k \in DOMAIN x.labels |-> [label |-> x.labels[k], from |-> x.from]]
           Lists(f) == [k \in 0 .. n |->
                            IF k = 0 THEN <<>> ELSE f[k - 1] \o group(Imports[m][k])]
           lists == CHOOSE f : f = Lists(f)
           start == <<>>
           Q == Seq(L)
           next == [k \in 1 .. n |-> [v \in Q |-> v \o group(Imports[m][k])]]
<1>1. /\ Imports[m] \in Seq([from : STRING, labels : Seq(STRING)]) /\ n \in Nat
      /\ \A k \in 1 .. n : Imports[m][k].from \in STRING /\ Imports[m][k].labels \in Seq(STRING)
  <2> DEFINE R == [from : STRING, labels : Seq(STRING)]
             q == Imports[m]
  <2>1. q \in Seq(R)
    BY MibLinkerAssumption
  <2>2. \A r \in R : r.from \in STRING /\ r.labels \in Seq(STRING)
    OBVIOUS
  <2> HIDE DEF R, q
  <2>3. Len(q) \in Nat /\ \A k \in 1 .. Len(q) : q[k] \in R
    BY <2>1
  <2> QED  BY <2>1, <2>2, <2>3 DEF R, q
<1>2. ASSUME NEW k \in 1 .. n  PROVE group(Imports[m][k]) \in Q
  <2> DEFINE a == Imports[m][k].labels
             b == Imports[m][k].from
  <2>1. a \in Seq(STRING) /\ b \in STRING
    BY <1>1
  <2>2. group(Imports[m][k]) = [p \in DOMAIN a |-> [label |-> a[p], from |-> b]]
    OBVIOUS
  <2> HIDE DEF a, b
  <2>3. DOMAIN a = 1 .. Len(a) /\ Len(a) \in Nat /\ \A p \in 1 .. Len(a) : a[p] \in STRING
    BY <2>1
  <2>4. \A p \in 1 .. Len(a) : [label |-> a[p], from |-> b] \in L
    BY <2>1, <2>3
  <2> HIDE DEF L
  <2>5. [p \in 1 .. Len(a) |-> [label |-> a[p], from |-> b]] \in Seq(L)
    BY <2>3, <2>4
  <2> QED  BY <2>2, <2>3, <2>5
<1> HIDE DEF L
<1>3. start \in Q
  OBVIOUS
<1>4. ASSUME NEW k \in 1 .. n, NEW v \in Q  PROVE v \o group(Imports[m][k]) \in Q
  <2> DEFINE w == group(Imports[m][k])
  <2>1. w \in Seq(L) /\ v \in Seq(L)
    BY <1>2, <1>4
  <2> HIDE DEF w
  <2>2. v \o w \in Seq(L)
    BY <2>1, ConcatProperties
  <2> QED  BY <2>2 DEF w
<1> HIDE DEF Q, group
<1>5. /\ next \in [1 .. n -> [Q -> Q]]
      /\ \A k \in 1 .. n : \A v \in Q : next[k][v] = v \o group(Imports[m][k])
  BY <1>4
<1> HIDE DEF next, start
<1>6. PICK f : Staged(f, Q, start, n, next)
  <2>1. n \in Nat
    BY <1>1
  <2> HIDE DEF n
  <2> QED  BY <1>3, <1>5, <2>1, StagedOn
<1>7. f \in [0 .. n -> Q] /\ f[0] = start /\ \A k \in 1 .. n : f[k] = next[k][f[k - 1]]
  BY <1>6 DEF Staged
<1>8. \E h : h = Lists(h)
  <2>1. ASSUME NEW k \in 0 .. n
        PROVE  f[k] = IF k = 0 THEN <<>> ELSE f[k - 1] \o group(Imports[m][k])
    <3>1. CASE k = 0
      BY <1>7, <3>1 DEF start
    <3>2. CASE k # 0
      <4>1. k \in 1 .. n /\ k - 1 \in 0 .. n
        BY <1>1, <3>2
      <4> HIDE DEF n
      <4>2. f[k - 1] \in Q
        BY <1>7, <4>1
      <4> QED  BY <1>5, <1>7, <3>2, <4>1, <4>2
    <3> QED  BY <3>1, <3>2
  <2>2. f = Lists(f)
    <3> HIDE DEF n
    <3> QED  BY <1>7, <2>1
  <2> HIDE DEF Lists
  <2> QED  BY <2>2
<1>9. lists = Lists(lists)
  <2> HIDE DEF Lists
  <2> QED  BY <1>8
<1>10. lists[0] = start /\ \A k \in 1 .. n : lists[k] = lists[k - 1] \o group(Imports[m][k])
  <2>1. \A k \in 0 .. n :
            lists[k] = IF k = 0 THEN <<>> ELSE lists[k - 1] \o group(Imports[m][k])
    <3> HIDE DEF lists, n
    <3> QED  BY <1>9
  <2>2. n \in Nat
    BY <1>1
  <2> HIDE DEF lists, n
  <2>3. lists[0] = start
    BY <2>1, <2>2 DEF start
  <2>4. \A k \in 1 .. n : k \in 0 .. n /\ k # 0
    BY <2>2
  <2>5. \A k \in 1 .. n : lists[k] = lists[k - 1] \o group(Imports[m][k])
    BY <2>1, <2>4
  <2> QED  BY <2>3, <2>5
<1>11. Imports[m] # <<>> => ImportList(m) = lists[n]
  BY DEF ImportList, group
<1> HIDE DEF lists, Lists, n
<1>12. \A k \in 1 .. n : lists[k - 1] \in Q => lists[k] \in Q
  BY <1>4, <1>10
<1>13. n \in Nat
  BY <1>1
<1>14. \A k \in 0 .. n : lists[k] \in Q
  BY <1>3, <1>10, <1>12, <1>13, StaysIn
<1>15. lists[n] \in Q
  BY <1>13, <1>14
<1>16. CASE Imports[m] # <<>>
  <2> DEFINE a == ImportList(m)
  <2>1. a \in Seq(L)
    BY <1>11, <1>15, <1>16 DEF Q
  <2> HIDE DEF a
  <2>2. Len(a) \in Nat
    BY <2>1
  <2> QED  BY <2>2 DEF a
<1>17. CASE Imports[m] = <<>>
  <2> DEFINE from(k) == [label |-> Roots[Len(Roots) + 1 - k].label, from |-> Base]
  <2>1. ImportList(m) = [k \in DOMAIN Roots |-> from(k)]
    BY <1>17 DEF ImportList
  <2>2. Roots \in Seq([label : STRING, subid : Nat])
    BY MibLinkerAssumption
  <2>3. DOMAIN Roots = 1 .. Len(Roots) /\ Len(Roots) \in Nat
    BY <2>2
  <2> HIDE DEF from
  <2>4. Len([k \in 1 .. Len(Roots) |-> from(k)]) = Len(Roots)
    BY <2>3
  <2> QED  BY <2>1, <2>3, <2>4
<1> QED  BY <1>16, <1>17

\* What a list starts from.
LEMMA StartIs ==
    ASSUME NEW t, NEW c \in Nat, IsTree(t, c), NEW p \in Seq(AllObjects)
    PROVE  LET s == Start(t, c, p)
           IN  /\ s \in LinkStates /\ s.todo = <<>> /\ s.tree = t /\ s.pending = p
               /\ \A n : Has(p, n) => Waits(s, n)
<1> DEFINE d == <<>>
           s == [tree |-> t, made |-> c, pending |-> p, todo |-> d]
<1>1. Start(t, c, p) = s
  BY DEF Start
<1>2. d \in Seq([node : AllObjects, under : Nat]) /\ Len(d) = 0
  OBVIOUS
<1>3. \A k \in 1 .. Len(d) : \E u \in t : u.id = d[k].under /\ u.label = d[k].node.parent
  BY <1>2
<1> HIDE DEF d
<1>4. s \in LinkStates
  BY <1>2, <1>3, StateIs
<1>5. s.pending = p /\ s.todo = d /\ s.tree = t
  OBVIOUS
<1> HIDE DEF s
<1>6. \A n : Has(p, n) => Waits(s, n)
  BY <1>5 DEF Has, Waits
<1> QED  BY <1>1, <1>4, <1>5, <1>6 DEF d

\* do_linkup: what a module defines is in the tree, or left.
LEMMA LinkedIs ==
    ASSUME Consistent, NEW m \in Modules \ Broken, IsTree(tree, made), made \in Nat,
           top \in Seq(Nat), NothingFreedIsLinked
    PROVE  LET s == Linked(m)
           IN  /\ s \in LinkStates /\ Grows(tree, s.tree)
               /\ \A n \in ToSet(Objects(m)) : Has(s.pending, n) \/ IsLinked(s.tree, n)
<1> DEFINE p == Reverse(Objects(m))
           first == Start(tree, made, p)
           below == BelowImports(first, ImportList(m))
           s == BelowRoots(below)
<1>1. Objects(m) \in Seq(AllObjects)
  BY ObjectsAre
<1>2. /\ p \in Seq(AllObjects)
      /\ \A k \in 1 .. Len(Objects(m)) : \E q \in 1 .. Len(Objects(m)) : p[q] = Objects(m)[k]
      /\ Len(p) = Len(Objects(m))
  BY <1>1, ReverseIs
<1>3. ASSUME NEW n \in ToSet(Objects(m))  PROVE Has(p, n) /\ n \in AllObjects
  <2>1. PICK k \in DOMAIN Objects(m) : n = Objects(m)[k]
    BY <1>3 DEF ToSet
  <2>2. DOMAIN Objects(m) = 1 .. Len(Objects(m))
    BY <1>1
  <2>3. Objects(m)[k] \in AllObjects
    BY <1>1, <2>2
  <2> QED  BY <1>2, <2>1, <2>2, <2>3 DEF Has
<1>4. Linked(m) = s
  BY DEF Linked
<1> HIDE DEF p
<1>5. /\ first \in LinkStates /\ first.todo = <<>> /\ first.tree = tree
      /\ \A n : Has(p, n) => Waits(first, n)
  BY <1>2, StartIs
<1> HIDE DEF first
<1>6. below \in After(first)
  BY <1>5, ImportListIs, BelowImportsIs
<1> HIDE DEF below
<1>7. below \in LinkStates /\ below.todo = <<>> /\ Follows(first, below)
  BY <1>6 DEF After
<1>8. \A k \in 1 .. Len(top) : \E u \in below.tree : u.id = top[k]
  <2>1. DOMAIN top = 1 .. Len(top)
    OBVIOUS
  <2> QED  BY <1>5, <1>7, <2>1 DEF NothingFreedIsLinked, Follows, Grows
<1>9. s \in After(below)
  BY <1>7, <1>8, BelowRootsIs
<1> HIDE DEF s
<1>10. s \in LinkStates /\ s.todo = <<>> /\ Follows(first, s)
  BY <1>6, <1>9, AfterOn DEF After
<1>11. Grows(tree, s.tree)
  BY <1>5, <1>10 DEF Follows
<1>12. ASSUME NEW n \in ToSet(Objects(m))  PROVE Has(s.pending, n) \/ IsLinked(s.tree, n)
  <2>1. Waits(s, n) \/ IsLinked(s.tree, n)
    BY <1>3, <1>5, <1>10 DEF Follows
  <2>2. Waits(s, n) => Has(s.pending, n)
    <3>1. Len(s.todo) = 0
      BY <1>10
    <3>2. ~ \E k \in 1 .. Len(s.todo) : s.todo[k].node = n
      BY <3>1
    <3> QED  BY <3>2 DEF Waits, Has
  <2> QED  BY <2>1, <2>2
<1> QED  BY <1>4, <1>10, <1>11, <1>12

\* The orphans get what is left, and none is lost.
LEMMA OrphanedIs ==
    ASSUME NEW left \in Seq(AllObjects), orphans \in Seq(AllObjects)
    PROVE  /\ Orphaned(left) \in Seq(AllObjects)
           /\ \A n : Has(left, n) \/ Has(orphans, n) => Has(Orphaned(left), n)
<1> DEFINE inner == {k \in DOMAIN left : \E q \in DOMAIN left : left[q].label = left[k].parent}
           a == Chosen(left, inner)
           b == Chosen(left, DOMAIN left \ inner)
           c == Reverse(a)
           S == AllObjects
<1>1. Orphaned(left) = c \o orphans \o b
  BY DEF Orphaned
<1> HIDE DEF inner
<1>2. AreParts(a, b, left, inner, AllObjects)
  BY PartsOf
<1> HIDE DEF a, b, S
<1>3. /\ a \in Seq(S) /\ b \in Seq(S)
      /\ \A k \in 1 .. Len(left) : k \in inner => \E p \in 1 .. Len(a) : a[p] = left[k]
      /\ \A k \in 1 .. Len(left) : k \notin inner => \E p \in 1 .. Len(b) : b[p] = left[k]
  BY <1>2 DEF AreParts, S
<1>4. /\ c \in Seq(S) /\ Len(c) = Len(a)
      /\ \A k \in 1 .. Len(a) : \E p \in 1 .. Len(a) : c[p] = a[k]
  BY <1>3, ReverseIs
<1> HIDE DEF c
<1>5. orphans \in Seq(S)
  BY DEF S
<1>6. c \o orphans \in Seq(S) /\ (c \o orphans) \o b \in Seq(S)
  BY <1>3, <1>4, <1>5, ConcatProperties
<1>7. ASSUME NEW n, Has(left, n)  PROVE Has(c, n) \/ Has(b, n)
  <2>1. PICK k \in 1 .. Len(left) : left[k] = n
    BY <1>7 DEF Has
  <2>2. CASE k \in inner
    <3>1. PICK p \in 1 .. Len(a) : a[p] = n
      BY <1>3, <2>1, <2>2
    <3>2. PICK q \in 1 .. Len(a) : c[q] = n
      BY <1>4, <3>1
    <3> QED  BY <1>4, <3>2 DEF Has
  <2>3. CASE k \notin inner
    BY <1>3, <2>1, <2>3 DEF Has
  <2> QED  BY <2>2, <2>3
<1>8. ASSUME NEW n, Has(c, n) \/ Has(orphans, n) \/ Has(b, n)
      PROVE  Has((c \o orphans) \o b, n)
  <2>1. Has(c, n) \/ Has(orphans, n) => Has(c \o orphans, n)
    BY <1>4, <1>5, HasBoth
  <2>2. Has(c \o orphans, n) \/ Has(b, n)
    BY <1>8, <2>1
  <2> DEFINE d == c \o orphans
  <2>3. d \in Seq(S) /\ (Has(d, n) \/ Has(b, n))
    BY <1>6, <2>2
  <2> HIDE DEF d
  <2>4. Has(d \o b, n)
    BY <1>3, <2>3, HasBoth
  <2> QED  BY <2>4 DEF d
<1> QED  BY <1>1, <1>6, <1>7, <1>8 DEF S

\* One round of adopt_orphans places an object, when there is one to place.
LEMMA AdoptedIs ==
    ASSUME Consistent, NEW s \in LinkStates, s.todo = <<>>
    PROVE  LET r == Adopted(s)
           IN  /\ r \in After(s)
               /\ NoneReady(s.tree, s.pending) => r = s
               /\ ~NoneReady(s.tree, s.pending) => Len(r.pending) < Len(s.pending)
<1> DEFINE ready == {k \in DOMAIN s.pending : Found(s.tree, s.pending[k].parent, "any") # {}}
           r == Adopted(s)
<1>1. "any" \notin Modules
  BY MibLinkerAssumption
<1>2. DOMAIN s.pending = 1 .. Len(s.pending) /\ Len(s.pending) \in Nat
  BY StatesAre
<1>3. \A k \in 1 .. Len(s.pending) :
          k \in ready <=> \E u \in s.tree : u.label = s.pending[k].parent
  BY <1>1, <1>2 DEF Found
<1>4. ready \subseteq 1 .. Len(s.pending)
  BY <1>2
<1>5. r = IF ready = {} THEN s
          ELSE LinkBelow(s, s.pending[CHOOSE k \in ready : \A q \in ready : k <= q].parent, "any")
  BY DEF Adopted
<1> HIDE DEF ready, r
<1>6. CASE ready = {}
  <2>1. NoneReady(s.tree, s.pending)
    BY <1>3, <1>6 DEF NoneReady
  <2>2. s \in After(s)
    BY FollowsSame DEF After
  <2> QED  BY <1>5, <1>6, <2>1, <2>2 DEF r
<1>7. CASE ready # {}
  <2>1. ~NoneReady(s.tree, s.pending)
    BY <1>3, <1>4, <1>7 DEF NoneReady
  <2> DEFINE p == CHOOSE k \in ready : \A q \in ready : k <= q
             label == s.pending[p].parent
  <2>2. \E k \in ready : \A q \in ready : k <= q
    <3>1. ready \subseteq Nat
      BY <1>4
    <3> QED  BY <1>7, <3>1, LeastOf
  <2>3. p \in ready
    BY <2>2
  <2>4. r = LinkBelow(s, label, "any")
    BY <1>5, <1>7
  <2> HIDE DEF p
  <2>5. p \in 1 .. Len(s.pending) /\ \E u \in s.tree : u.label = label
    BY <1>3, <1>4, <2>3
  <2>6. \E k \in 1 .. Len(s.pending) : s.pending[k].parent = label
    BY <2>5
  <2> HIDE DEF label
  <2>7. r \in After(s) /\ Len(r.pending) < Len(s.pending)
    BY <1>1, <2>4, <2>5, <2>6, LinkBelowIs
  <2> QED  BY <2>1, <2>7 DEF r
<1> QED  BY <1>6, <1>7

\* adopt_orphans goes on until no orphan has a parent in the tree.
LEMMA AdoptOrphansIs ==
    ASSUME Consistent, AdoptOrphans, IsTree(tree, made), made \in Nat,
           orphans \in Seq(AllObjects)
    PROVE  /\ IsTree(tree', made') /\ made' \in Nat /\ orphans' \in Seq(AllObjects)
           /\ Grows(tree, tree') /\ NoneReady(tree', orphans')
           /\ \A n \in AllObjects : Has(orphans, n) => Has(orphans', n) \/ IsLinked(tree', n)
<1> DEFINE n == Len(orphans)
           p == Reverse(orphans)
           start == Start(tree, made, p)
           S == After(start)
           Rounds(f) == [k \in 0 .. n |-> IF k = 0 THEN start ELSE Adopted(f[k - 1])]
           rounds == CHOOSE f : f = Rounds(f)
           next == [k \in 1 .. n |-> [v \in S |-> Adopted(v)]]
<1>1. /\ p \in Seq(AllObjects) /\ Len(p) = n /\ n \in Nat
      /\ \A k \in 1 .. n : \E q \in 1 .. n : p[q] = orphans[k]
  BY ReverseIs
<1>2. \A o : Has(orphans, o) => Has(p, o)
  BY <1>1 DEF Has
<1>3. /\ tree' = rounds[n].tree /\ made' = rounds[n].made /\ orphans' = rounds[n].pending
  BY DEF AdoptOrphans
<1> HIDE DEF p
<1>4. /\ start \in LinkStates /\ start.todo = <<>> /\ start.tree = tree /\ start.pending = p
      /\ \A o : Has(p, o) => Waits(start, o)
  BY <1>1, StartIs
<1> HIDE DEF start
<1>5. start \in S
  BY <1>4, FollowsSame DEF After
<1>6. ASSUME NEW v \in S
      PROVE  /\ Adopted(v) \in S /\ v \in LinkStates
             /\ NoneReady(v.tree, v.pending) => Adopted(v) = v
             /\ ~NoneReady(v.tree, v.pending) => Len(Adopted(v).pending) < Len(v.pending)
  <2>1. v \in LinkStates /\ v.todo = <<>>
    BY DEF After
  <2> DEFINE w == Adopted(v)
  <2>2. /\ w \in After(v)
        /\ NoneReady(v.tree, v.pending) => w = v
        /\ ~NoneReady(v.tree, v.pending) => Len(w.pending) < Len(v.pending)
    BY <2>1, AdoptedIs
  <2> HIDE DEF w
  <2>3. w \in S
    BY <2>2, AfterOn
  <2> QED  BY <2>1, <2>2, <2>3 DEF w
<1> HIDE DEF S
<1>7. /\ next \in [1 .. n -> [S -> S]]
      /\ \A k \in 1 .. n : \A v \in S : next[k][v] = Adopted(v)
  BY <1>6
<1> HIDE DEF next
<1>8. PICK f : Staged(f, S, start, n, next)
  <2>1. n \in Nat
    BY <1>1
  <2> HIDE DEF n
  <2> QED  BY <1>5, <1>7, <2>1, StagedOn
<1>9. f \in [0 .. n -> S] /\ f[0] = start /\ \A k \in 1 .. n : f[k] = next[k][f[k - 1]]
  BY <1>8 DEF Staged
<1>10. \E h : h = Rounds(h)
  <2>1. ASSUME NEW k \in 0 .. n  PROVE f[k] = IF k = 0 THEN start ELSE Adopted(f[k - 1])
    <3>1. CASE k = 0
      BY <1>9, <3>1
    <3>2. CASE k # 0
      <4>1. k \in 1 .. n /\ k - 1 \in 0 .. n
        BY <1>1, <3>2
      <4> HIDE DEF n
      <4>2. f[k - 1] \in S
        BY <1>9, <4>1
      <4> QED  BY <1>7, <1>9, <3>2, <4>1, <4>2
    <3> QED  BY <3>1, <3>2
  <2>2. f = Rounds(f)
    <3> HIDE DEF n
    <3> QED  BY <1>9, <2>1
  <2> HIDE DEF Rounds
  <2> QED  BY <2>2
<1>11. rounds = Rounds(rounds)
  <2> HIDE DEF Rounds
  <2> QED  BY <1>10
<1>12. rounds[0] = start /\ \A k \in 1 .. n : rounds[k] = Adopted(rounds[k - 1])
  <2>1. \A k \in 0 .. n : rounds[k] = IF k = 0 THEN start ELSE Adopted(rounds[k - 1])
    <3> HIDE DEF rounds, n
    <3> QED  BY <1>11
  <2>2. n \in Nat
    BY <1>1
  <2> HIDE DEF rounds, n
  <2>3. \A k \in 1 .. n : k \in 0 .. n /\ k # 0
    BY <2>2
  <2> QED  BY <2>1, <2>2, <2>3
<1> HIDE DEF rounds, Rounds
<1> DEFINE Done(v) == NoneReady(v.tree, v.pending)
           Good(v, k) == v \in S /\ (Done(v) \/ Len(v.pending) <= n - k)
           T == {k \in Nat : k <= n => Good(rounds[k], k)}
<1>13. 0 \in T
  <2>1. Good(start, 0)
    <3> DEFINE m == Len(start.pending)
    <3>1. m = n
      BY <1>1, <1>4
    <3> HIDE DEF m, n, Done
    <3>2. m <= n - 0
      BY <1>1, <3>1 DEF n
    <3> QED  BY <1>5, <3>2 DEF m
  <2> HIDE DEF Good
  <2> QED  BY <1>12, <2>1
<1>14. ASSUME NEW k \in Nat, k \in T, k + 1 <= n
       PROVE  Good(rounds[k + 1], k + 1)
  <2> DEFINE u == rounds[k]
             v == rounds[k + 1]
  <2>1. k + 1 \in 1 .. n /\ (k + 1) - 1 = k /\ k <= n
    BY <1>1, <1>14
  <2>2. v = Adopted(u)
    BY <1>12, <2>1
  <2>3. Good(u, k)
    <3> HIDE DEF Good
    <3> QED  BY <1>14, <2>1
  <2> HIDE DEF u, v, n
  <2>4. u \in S /\ v \in S /\ u \in LinkStates /\ (Done(u) => v = u)
        /\ (~Done(u) => Len(v.pending) < Len(u.pending))
    BY <1>6, <2>2, <2>3
  <2>5. v \in LinkStates
    BY <1>6, <2>4
  <2>6. CASE Done(u)
    BY <2>4, <2>6 DEF v
  <2>7. CASE ~Done(u)
    <3> DEFINE a == Len(u.pending)
               b == Len(v.pending)
    <3>1. a \in Nat /\ b \in Nat
      BY <2>4, <2>5, StatesAre
    <3>2. a <= n - k /\ b < a
      BY <2>3, <2>4, <2>7
    <3>3. n \in Nat
      BY <1>1 DEF n
    <3> HIDE DEF a, b
    <3>4. b <= n - (k + 1)
      BY <3>1, <3>2, <3>3
    <3> HIDE DEF Done
    <3> QED  BY <2>4, <3>4 DEF b, v
  <2> QED  BY <2>6, <2>7
<1>15. Good(rounds[n], n)
  <2>1. \A k \in Nat : k \in T => k + 1 \in T
    <3> HIDE DEF Good
    <3> QED  BY <1>14
  <2>2. n \in Nat
    BY <1>1
  <2> HIDE DEF T, n, Good
  <2>3. n \in T
    BY <1>13, <2>1, <2>2, InductionOn
  <2> QED  BY <2>2, <2>3 DEF T
<1> DEFINE s == rounds[n]
<1>16. s \in LinkStates /\ s.todo = <<>> /\ Follows(start, s)
  BY <1>15 DEF S, After
<1>17. NoneReady(s.tree, s.pending)
  <2>1. Len(s.pending) \in Nat
    BY <1>16, StatesAre
  <2>2. Done(s) \/ Len(s.pending) <= 0
    <3> DEFINE a == Len(s.pending)
    <3>1. Done(s) \/ a <= n - n
      BY <1>15
    <3> HIDE DEF a, Done, n
    <3>2. n \in Nat
      BY <1>1 DEF n
    <3> QED  BY <2>1, <3>1, <3>2 DEF a
  <2> HIDE DEF s
  <2>3. Len(s.pending) <= 0 => Done(s)
    BY <2>1 DEF NoneReady
  <2> QED  BY <2>2, <2>3
<1>18. /\ IsTree(s.tree, s.made) /\ s.made \in Nat /\ s.pending \in Seq(AllObjects)
       /\ Grows(tree, s.tree)
  BY <1>4, <1>16, StatesAre DEF Follows
<1>19. ASSUME NEW o \in AllObjects, Has(orphans, o)
       PROVE  Has(s.pending, o) \/ IsLinked(s.tree, o)
  <2>1. Waits(s, o) \/ IsLinked(s.tree, o)
    BY <1>2, <1>4, <1>16, <1>19 DEF Follows
  <2>2. Waits(s, o) => Has(s.pending, o)
    <3>1. Len(s.todo) = 0
      BY <1>16
    <3>2. ~ \E k \in 1 .. Len(s.todo) : s.todo[k].node = o
      BY <3>1
    <3> QED  BY <3>2 DEF Waits, Has
  <2> QED  BY <2>1, <2>2
<1>20. tree' = s.tree /\ made' = s.made /\ orphans' = s.pending
  BY <1>3
<1> HIDE DEF s
<1> QED  BY <1>17, <1>18, <1>19, <1>20

IdsOf(t) == {n.id : n \in t}

WithId(t, x) == CHOOSE n \in t : n.id = x

\* The nodes by their ids: what is above one was made before it.
LEMMA UpIs ==
    ASSUME NEW t, NEW c, IsTree(t, c)
    PROVE  /\ IdsOf(t) \subseteq Nat
           /\ \A n \in t : n.id \in IdsOf(t) /\ WithId(t, n.id) = n
           /\ \A x \in IdsOf(t) :
                  /\ WithId(t, x) \in t /\ WithId(t, x).id = x
                  /\ WithId(t, x).subid \in Nat /\ WithId(t, x).up \in Nat
                  /\ WithId(t, x).up # 0 =>
                         WithId(t, x).up \in IdsOf(t) /\ WithId(t, x).up < x
<1>1. IdsOf(t) \subseteq Nat
  BY NodesAre DEF IdsOf
<1>2. ASSUME NEW n \in t  PROVE n.id \in IdsOf(t) /\ WithId(t, n.id) = n
  <2>1. WithId(t, n.id) \in t /\ WithId(t, n.id).id = n.id
    BY DEF WithId
  <2>2. WithId(t, n.id) = n
    BY <2>1, NodesAre
  <2> QED  BY <2>2 DEF IdsOf
<1>3. ASSUME NEW x \in IdsOf(t)
      PROVE  /\ WithId(t, x) \in t /\ WithId(t, x).id = x
             /\ WithId(t, x).subid \in Nat /\ WithId(t, x).up \in Nat
             /\ WithId(t, x).up # 0 =>
                    WithId(t, x).up \in IdsOf(t) /\ WithId(t, x).up < x
  <2>1. PICK n \in t : n.id = x
    BY DEF IdsOf
  <2>2. WithId(t, x) = n
    BY <1>2, <2>1
  <2>3. n.subid \in Nat /\ n.up \in Nat /\ (n.up # 0 => Hangs(t, n))
    BY NodesAre
  <2>4. Hangs(t, n) => n.up \in IdsOf(t) /\ n.up < x
    BY <2>1 DEF Hangs, IdsOf
  <2> QED  BY <2>1, <2>2, <2>3, <2>4
<1> QED  BY <1>1, <1>2, <1>3

\* The nodes above a node are itself and those above its parent.
LEMMA LineageIs ==
    ASSUME NEW t, NEW c, IsTree(t, c)
    PROVE  /\ Lineage(t) \in [IdsOf(t) -> SUBSET Nat]
           /\ \A n \in t : Lineage(t)[n.id] =
                  {n.id} \cup (IF n.up = 0 THEN {} ELSE Lineage(t)[n.up])
<1> DEFINE S == IdsOf(t)
           V == SUBSET Nat
           up(x) == WithId(t, x).up
           value(x, g) == {x} \cup (IF up(x) = 0 THEN {} ELSE g[up(x)])
           Above(f) == [x \in S |-> value(x, f)]
           above == CHOOSE f : f = Above(f)
           measure == [x \in S |-> x]
           body == [x \in S |-> [g \in [S -> V] |-> value(x, g)]]
<1>1. /\ S \subseteq Nat
      /\ \A x \in S : up(x) \in Nat /\ (up(x) # 0 => up(x) \in S /\ up(x) < x)
      /\ \A n \in t : n.id \in S /\ up(n.id) = n.up
  BY UpIs
<1>2. Lineage(t) = above
  BY DEF Lineage, IdsOf, WithId
<1> HIDE DEF S, V, up
<1>3. ASSUME NEW x \in S, NEW g \in [S -> V]  PROVE value(x, g) \in V
  <2>1. x \in Nat
    BY <1>1
  <2>2. CASE up(x) = 0
    BY <2>1, <2>2 DEF V
  <2>3. CASE up(x) # 0
    <3>1. g[up(x)] \in V
      BY <1>1, <2>3
    <3> QED  BY <2>1, <2>3, <3>1 DEF V
  <2> QED  BY <2>2, <2>3
<1>4. body \in [S -> [[S -> V] -> V]] /\ \A x \in S : \A g \in [S -> V] : body[x][g] = value(x, g)
  <2> HIDE DEF value
  <2> QED  BY <1>3
<1>5. measure \in [S -> Nat] /\ \A x \in S : measure[x] = x
  BY <1>1
<1> HIDE DEF body, measure
<1>6. DependsBelow(body, measure, S, V)
  <2>1. ASSUME NEW x \in S, NEW g \in [S -> V], NEW h \in [S -> V],
               \A y \in S : measure[y] < measure[x] => g[y] = h[y]
        PROVE  body[x][g] = body[x][h]
    <3>1. up(x) # 0 => g[up(x)] = h[up(x)]
      BY <1>1, <1>5, <2>1
    <3>2. value(x, g) = value(x, h)
      BY <3>1
    <3> HIDE DEF value
    <3> QED  BY <1>4, <3>2
  <2> QED  BY <2>1 DEF DependsBelow
<1>7. PICK f : Recurs(f, body, S, V)
  <2>1. {} \in V
    BY DEF V
  <2> QED  BY <1>4, <1>5, <1>6, <2>1, MeasuredRecursion
<1>8. \E h : h = Above(h)
  <2>1. f \in [S -> V] /\ \A x \in S : f[x] = value(x, f)
    <3> HIDE DEF value
    <3> QED  BY <1>4, <1>7 DEF Recurs
  <2>2. f = Above(f)
    <3> HIDE DEF value
    <3> QED  BY <2>1
  <2> HIDE DEF Above
  <2> QED  BY <2>2
<1>9. above = Above(above)
  <2> HIDE DEF Above
  <2> QED  BY <1>8
<1>10. \A x \in S : above[x] = value(x, above)
  <2> HIDE DEF above, value
  <2> QED  BY <1>9
<1>11. above = [x \in S |-> above[x]]
  <2>1. \A h : Above(h) = [x \in S |-> Above(h)[x]]
    <3> HIDE DEF value
    <3> QED  OBVIOUS
  <2> HIDE DEF above, Above
  <2> QED  BY <1>9, <2>1
<1> HIDE DEF above, Above
<1>12. \A x \in S : above[x] \in V
  <2> DEFINE U == {k \in Nat : \A x \in S : x < k => above[x] \in V}
  <2>1. 0 \in U
    <3>1. \A x \in S : ~(x < 0)
      BY <1>1
    <3> QED  BY <3>1
  <2>2. ASSUME NEW k \in Nat, k \in U, NEW x \in S, x < k + 1  PROVE above[x] \in V
    <3>1. x \in Nat /\ above[x] = value(x, above)
      BY <1>1, <1>10
    <3>2. CASE up(x) = 0
      BY <3>1, <3>2 DEF V
    <3>3. CASE up(x) # 0
      <4>1. up(x) \in S /\ up(x) < k
        BY <1>1, <2>2, <3>1, <3>3
      <4>2. above[up(x)] \in V
        BY <2>2, <4>1
      <4> QED  BY <3>1, <3>3, <4>2 DEF V
    <3> QED  BY <3>2, <3>3
  <2>3. \A k \in Nat : k \in U => k + 1 \in U
    BY <2>2
  <2>4. Nat \subseteq U
    <3> HIDE DEF U
    <3> QED  BY <2>1, <2>3, InductionOn
  <2>5. ASSUME NEW x \in S  PROVE above[x] \in V
    <3>1. x + 1 \in Nat /\ x < x + 1
      BY <1>1
    <3>2. x + 1 \in U
      BY <2>4, <3>1
    <3> QED  BY <3>1, <3>2
  <2> QED  BY <2>5
<1>13. above \in [S -> V]
  BY <1>11, <1>12
<1>14. ASSUME NEW n \in t
       PROVE  above[n.id] = {n.id} \cup (IF n.up = 0 THEN {} ELSE above[n.up])
  BY <1>1, <1>10
<1> QED  BY <1>2, <1>13, <1>14 DEF S, V

\* What is above a node has what is above it there too.
LEMMA AboveIs ==
    ASSUME NEW t, NEW c, IsTree(t, c), NEW n \in t, n.up # 0, NEW u \in t,
           n.id \in Lineage(t)[u.id]
    PROVE  n.up \in Lineage(t)[u.id]
<1> DEFINE L == Lineage(t)
           Bad == {x \in IdsOf(t) : n.id \in L[x] /\ n.up \notin L[x]}
<1>1. /\ IdsOf(t) \subseteq Nat /\ \A v \in t : v.id \in IdsOf(t)
      /\ \A v \in t : v.up # 0 => v.up \in IdsOf(t) /\ v.up < v.id
      /\ \A x \in IdsOf(t) : \E v \in t : v.id = x
      /\ \A v \in t : v.id = n.id => v = n
  <2>1. ASSUME NEW v \in t, v.up # 0  PROVE v.up \in IdsOf(t) /\ v.up < v.id
    <3>1. v.id \in IdsOf(t) /\ WithId(t, v.id) = v
      BY UpIs
    <3> QED  BY <2>1, <3>1, UpIs
  <2>2. \A v \in t : v.id = n.id => v = n
    BY NodesAre
  <2>3. IdsOf(t) \subseteq Nat /\ \A v \in t : v.id \in IdsOf(t)
    BY UpIs
  <2> QED  BY <2>1, <2>2, <2>3 DEF IdsOf
<1>2. \A v \in t : L[v.id] = {v.id} \cup (IF v.up = 0 THEN {} ELSE L[v.up])
  BY LineageIs
<1> HIDE DEF L
<1> SUFFICES ASSUME Bad # {}  PROVE FALSE
  <2>1. u.id \in IdsOf(t)
    BY <1>1
  <2> QED  BY <2>1 DEF L
<1>3. PICK x \in Bad : \A y \in Bad : x <= y
  <2>1. Bad \subseteq Nat
    BY <1>1
  <2> HIDE DEF Bad
  <2> QED  BY <2>1, LeastOf
<1>4. PICK v \in t : v.id = x
  BY <1>1
<1>5. n.id \in L[v.id] /\ n.up \notin L[v.id]
  BY <1>3, <1>4
<1>6. CASE n.id = v.id
  <2>1. v = n
    BY <1>1, <1>6
  <2>2. PICK p \in t : p.id = n.up
    BY <1>1
  <2>3. n.up \in L[n.up]
    BY <1>2, <2>2
  <2> QED  BY <1>2, <1>5, <2>1, <2>3
<1>7. CASE n.id # v.id
  <2>1. v.up # 0 /\ n.id \in L[v.up]
    BY <1>2, <1>5, <1>7
  <2>2. n.up \notin L[v.up]
    BY <1>2, <1>5, <2>1
  <2>3. v.up \in Bad
    BY <1>1, <2>1, <2>2
  <2>4. v.up \in Nat /\ x \in Nat /\ v.up < x
    BY <1>1, <1>3, <1>4, <2>1
  <2> HIDE DEF Bad
  <2> QED  BY <1>3, <2>3, <2>4
<1> QED  BY <1>6, <1>7

\* A tree without a module, before the nodes that nobody needs are freed.
Without(t, m) == {[n EXCEPT !.mods = @ \ {m}] : n \in t}

StillThere(t, c, m, r) ==
    /\ IsTree(r, c)
    /\ \A v \in r : \E n \in t : v.label = n.label
    /\ \A n \in t : \A o \in n.mods : o # m => \E v \in r : v.label = n.label /\ o \in v.mods

\* What stays in a tree when a module is taken out of it is a tree, and has what
\* is there for another module.
LEMMA NeededIs ==
    ASSUME NEW t, NEW c, IsTree(t, c), NEW m
    PROVE  StillThere(t, c, m, Needed(Without(t, m)))
<1> DEFINE Less(n) == [n EXCEPT !.mods = @ \ {m}]
           w == {Less(n) : n \in t}
           r == Needed(w)
<1>1. ASSUME NEW n \in t
      PROVE  /\ Less(n) \in Node /\ Less(n).id = n.id /\ Less(n).label = n.label
             /\ Less(n).up = n.up /\ Less(n).subid = n.subid /\ Less(n).mods = n.mods \ {m}
  <2>1. n \in Node
    BY DEF IsTree
  <2> QED  BY <2>1 DEF Node
<1> HIDE DEF Less
<1>2. IsTree(w, c)
  <2>1. w \subseteq Node
    BY <1>1
  <2>2. \A n \in t : \E u \in w : u.id = n.id /\ u.label = n.label
    BY <1>1
  <2>3. \A u \in w : \E n \in t :
            u.id = n.id /\ u.label = n.label /\ u.up = n.up /\ u.subid = n.subid
    BY <1>1
  <2>4. \A u, v \in w : u.id = v.id => u = v
    <3> SUFFICES ASSUME NEW u \in w, NEW v \in w, u.id = v.id  PROVE u = v
      OBVIOUS
    <3>1. PICK n \in t : u = Less(n)
      OBVIOUS
    <3>2. PICK o \in t : v = Less(o)
      OBVIOUS
    <3>3. n.id = o.id
      BY <1>1, <3>1, <3>2
    <3>4. n = o
      BY <3>3, NodesAre
    <3> QED  BY <3>1, <3>2, <3>4
  <2> HIDE DEF w
  <2> QED  BY <2>1, <2>2, <2>3, <2>4, SameShape
<1>3. \A v \in w : \E n \in t : v.label = n.label
  BY <1>1
<1>4. \A n \in t : \A o \in n.mods : o # m =>
          \E v \in w : v.label = n.label /\ o \in v.mods
  BY <1>1
<1> HIDE DEF w, r
<1>5. r = {n \in w : \E u \in w : u.mods # {} /\ n.id \in Lineage(w)[u.id]}
  BY DEF Needed, r
<1>6. \A v \in w : v.mods # {} => v \in r
  <2>1. \A v \in w : v.id \in Lineage(w)[v.id]
    BY <1>2, LineageIs
  <2> QED  BY <1>5, <2>1
<1>7. ASSUME NEW n \in r  PROVE n.id <= c /\ (IsRoot(n) \/ Hangs(r, n))
  <2>1. PICK u \in w : u.mods # {} /\ n.id \in Lineage(w)[u.id]
    BY <1>5
  <2>2. n \in w
    BY <1>5
  <2>3. n.id <= c /\ (n.up = 0 => IsRoot(n)) /\ (n.up # 0 => Hangs(w, n))
    BY <1>2, <2>2, NodesAre
  <2>4. CASE n.up = 0
    BY <2>3, <2>4
  <2>5. CASE n.up # 0
    <3>1. PICK p \in w, o \in AllObjects :
              p.id = n.up /\ p.id < n.id /\ o.label = n.label /\ o.parent = p.label
              /\ o.subid = n.subid
      BY <2>3, <2>5 DEF Hangs
    <3>2. n.up \in Lineage(w)[u.id]
      BY <1>2, <2>1, <2>2, <2>5, AboveIs
    <3>3. p \in r
      BY <1>5, <2>1, <3>1, <3>2
    <3>4. Hangs(r, n)
      BY <3>1, <3>3 DEF Hangs
    <3> QED  BY <2>3, <3>4
  <2> QED  BY <2>4, <2>5
<1>8. r \subseteq w
  BY <1>5
<1>9. IsTree(r, c)
  <2>1. w \subseteq Node /\ \A n, o \in w : n.id = o.id \/ n.label = o.label => n = o
    BY <1>2 DEF IsTree
  <2> QED  BY <1>7, <1>8, <2>1 DEF IsTree
<1>10. \A v \in r : \E n \in t : v.label = n.label
  BY <1>3, <1>8
<1>11. \A n \in t : \A o \in n.mods : o # m =>
           \E v \in r : v.label = n.label /\ o \in v.mods
  BY <1>4, <1>6
<1>12. StillThere(t, c, m, r)
  BY <1>9, <1>10, <1>11 DEF StillThere
<1> QED  BY <1>12 DEF r, w, Less, Without

\* The roots that go are at the front of the list.
LEMMA LeadingIs ==
    ASSUME top \in Seq(Nat), NEW kept
    PROVE  Leading(kept) \in 0 .. Len(top)
<1> DEFINE n == Len(top)
           T == {k \in 0 .. n : \A p \in 1 .. k : top[p] \notin kept}
<1>1. n \in Nat
  OBVIOUS
<1> HIDE DEF n
<1>2. T \subseteq 0 .. n /\ 0 \in T
  BY <1>1
<1>3. PICK k \in T : \A q \in T : q <= k
  <2> HIDE DEF T
  <2> QED  BY <1>1, <1>2, GreatestOf
<1>4. k < n => top[k + 1] \in kept
  <2> SUFFICES ASSUME k < n, top[k + 1] \notin kept  PROVE FALSE
    OBVIOUS
  <2>1. k + 1 \in 0 .. n /\ \A p \in 1 .. k + 1 : p \in 1 .. k \/ p = k + 1
    BY <1>1
  <2>2. k + 1 \in T
    BY <2>1
  <2> QED  BY <1>3, <2>2
<1>5. k \in 0 .. n /\ \A p \in 1 .. k : top[p] \notin kept
  OBVIOUS
<1> QED  BY <1>4, <1>5 DEF Leading, n

\* The OID of a node is that of its parent and its own number.
LEMMA OidIs ==
    ASSUME NEW t, NEW c, IsTree(t, c), NEW n \in t
    PROVE  OidOf(t)[n.id] = (IF n.up = 0 THEN <<>> ELSE OidOf(t)[n.up]) \o <<n.subid>>
<1> DEFINE S == IdsOf(t)
           V == Seq(Nat)
           up(x) == WithId(t, x).up
           number(x) == <<WithId(t, x).subid>>
           value(x, g) == (IF up(x) = 0 THEN <<>> ELSE g[up(x)]) \o number(x)
           Oids(f) == [x \in S |-> value(x, f)]
           oids == CHOOSE f : f = Oids(f)
           measure == [x \in S |-> x]
           body == [x \in S |-> [g \in [S -> V] |-> value(x, g)]]
<1>1. /\ S \subseteq Nat
      /\ \A x \in S : up(x) \in Nat /\ (up(x) # 0 => up(x) \in S /\ up(x) < x)
      /\ n.id \in S /\ up(n.id) = n.up /\ number(n.id) = <<n.subid>>
      /\ \A x \in S : number(x) \in V
  BY UpIs
<1>2. OidOf(t) = oids
  BY DEF OidOf, IdsOf, WithId
<1>0. <<>> \in V
  OBVIOUS
<1> HIDE DEF S, up, number
<1>3. ASSUME NEW x \in S, NEW g \in [S -> V]  PROVE value(x, g) \in V
  <2> DEFINE a == IF up(x) = 0 THEN <<>> ELSE g[up(x)]
             b == number(x)
  <2>1. a \in V /\ b \in V
    <3> HIDE DEF V
    <3> QED  BY <1>0, <1>1
  <2> HIDE DEF a, b
  <2>2. a \o b \in V
    BY <2>1, ConcatProperties
  <2> QED  BY <2>2 DEF a, b
<1> HIDE DEF V
<1>4. body \in [S -> [[S -> V] -> V]] /\ \A x \in S : \A g \in [S -> V] : body[x][g] = value(x, g)
  <2> HIDE DEF value
  <2> QED  BY <1>3
<1>5. measure \in [S -> Nat] /\ \A x \in S : measure[x] = x
  BY <1>1
<1> HIDE DEF body, measure
<1>6. DependsBelow(body, measure, S, V)
  <2>1. ASSUME NEW x \in S, NEW g \in [S -> V], NEW h \in [S -> V],
               \A y \in S : measure[y] < measure[x] => g[y] = h[y]
        PROVE  body[x][g] = body[x][h]
    <3>1. up(x) # 0 => g[up(x)] = h[up(x)]
      BY <1>1, <1>5, <2>1
    <3>2. value(x, g) = value(x, h)
      BY <3>1
    <3> HIDE DEF value
    <3> QED  BY <1>4, <3>2
  <2> QED  BY <2>1 DEF DependsBelow
<1>7. PICK f : Recurs(f, body, S, V)
  <2> DEFINE first == <<>>
  <2>1. first \in V
    BY <1>0
  <2> HIDE DEF first
  <2> QED  BY <1>4, <1>5, <1>6, <2>1, MeasuredRecursion
<1>8. \E h : h = Oids(h)
  <2>1. f \in [S -> V] /\ \A x \in S : f[x] = value(x, f)
    <3> HIDE DEF value
    <3> QED  BY <1>4, <1>7 DEF Recurs
  <2>2. f = Oids(f)
    <3> HIDE DEF value
    <3> QED  BY <2>1
  <2> HIDE DEF Oids
  <2> QED  BY <2>2
<1>9. oids = Oids(oids)
  <2> HIDE DEF Oids
  <2> QED  BY <1>8
<1>10. \A x \in S : oids[x] = value(x, oids)
  <2> HIDE DEF oids, value
  <2> QED  BY <1>9
<1> HIDE DEF oids, Oids
<1>11. oids[n.id] = (IF n.up = 0 THEN <<>> ELSE oids[n.up]) \o <<n.subid>>
  BY <1>1, <1>10
<1> QED  BY <1>2, <1>11

\* The modules of what is read, first and behind the first.
LEMMA ReadingIs ==
    ASSUME NEW R, NEW q \in Seq(R)
    PROVE  /\ Reading(<<>>) = {}
           /\ q # <<>> => /\ Tail(q) \in Seq(R) /\ q[1] \in R
                          /\ Reading(q) = {q[1].module} \cup Reading(Tail(q))
           /\ \A x \in R : /\ <<x>> \o q \in Seq(R)
                           /\ Reading(<<x>> \o q) = {x.module} \cup Reading(q)
<1>1. Reading(<<>>) = {}
  <2> DEFINE e == <<>>
  <2>1. Len(e) = 0
    OBVIOUS
  <2> HIDE DEF e
  <2>2. Reading(e) = {}
    BY <2>1 DEF Reading
  <2> QED  BY <2>2 DEF e
<1>2. ASSUME q # <<>>
      PROVE  /\ Tail(q) \in Seq(R) /\ q[1] \in R
             /\ Reading(q) = {q[1].module} \cup Reading(Tail(q))
  <2> DEFINE d == Tail(q)
             n == Len(q)
  <2>1. d \in Seq(R) /\ Len(d) = n - 1 /\ n \in Nat /\ n >= 1 /\ q[1] \in R
    BY <1>2
  <2>2. \A k \in 1 .. Len(d) : d[k] = q[k + 1]
    BY <1>2
  <2> HIDE DEF d, n
  <2>3. \A k \in 1 .. n : k = 1 \/ (k - 1 \in 1 .. Len(d) /\ (k - 1) + 1 = k)
    BY <2>1
  <2>4. \A k \in 1 .. Len(d) : k + 1 \in 1 .. n
    BY <2>1
  <2>5. 1 \in 1 .. n
    BY <2>1
  <2>6. \A k \in 1 .. n : k = 1 \/ (k - 1 \in 1 .. Len(d) /\ d[k - 1] = q[k])
    BY <2>2, <2>3
  <2>7. Reading(q) \subseteq {q[1].module} \cup Reading(d)
    BY <2>6 DEF Reading, n
  <2>8. {q[1].module} \cup Reading(d) \subseteq Reading(q)
    BY <2>2, <2>4, <2>5 DEF Reading, n
  <2> QED  BY <2>1, <2>7, <2>8 DEF d
<1>3. ASSUME NEW x \in R
      PROVE  /\ <<x>> \o q \in Seq(R)
             /\ Reading(<<x>> \o q) = {x.module} \cup Reading(q)
  <2> DEFINE e == <<x>>
             d == e \o q
             n == Len(q)
  <2>1. e \in Seq(R) /\ Len(e) = 1 /\ e[1] = x /\ n \in Nat
    OBVIOUS
  <2> HIDE DEF e
  <2>2. /\ d \in Seq(R) /\ Len(d) = 1 + n
        /\ \A k \in 1 .. 1 + n : d[k] = IF k <= 1 THEN e[k] ELSE q[k - 1]
    BY <2>1, ConcatProperties
  <2> HIDE DEF d, n
  <2>3. \A k \in 1 .. n : k + 1 \in 1 .. 1 + n /\ ~(k + 1 <= 1) /\ (k + 1) - 1 = k
    BY <2>1
  <2>4. \A k \in 1 .. n : k + 1 \in 1 .. 1 + n /\ d[k + 1] = q[k]
    BY <2>2, <2>3
  <2>5. 1 \in 1 .. 1 + n /\ d[1] = x
    BY <2>1, <2>2
  <2>6. \A k \in 1 .. 1 + n : k = 1 \/ (k - 1 \in 1 .. n /\ ~(k <= 1))
    BY <2>1
  <2>7. \A k \in 1 .. 1 + n : k = 1 \/ (k - 1 \in 1 .. n /\ d[k] = q[k - 1])
    BY <2>2, <2>6
  <2>8. Reading(d) \subseteq {x.module} \cup Reading(q)
    BY <2>2, <2>5, <2>7 DEF Reading, n
  <2>9. {x.module} \cup Reading(q) \subseteq Reading(d)
    <3>1. Reading(d) = {d[k].module : k \in 1 .. 1 + n}
      BY <2>2 DEF Reading
    <3>2. x.module \in Reading(d)
      BY <2>5, <3>1
    <3>3. \A k \in 1 .. n : q[k].module \in Reading(d)
      BY <2>4, <3>1
    <3> QED  BY <3>2, <3>3 DEF Reading, n
  <2> QED  BY <2>2, <2>8, <2>9 DEF d, e
<1> QED  BY <1>1, <1>2, <1>3

\* Nothing but the roots is there in the beginning.
LEMMA LinkerInitInv ==
    ASSUME Consistent, LinkerInit
    PROVE  LinkerInv
<1> DEFINE R == [label : STRING, subid : Nat]
           RootAt(k) == [id |-> k, label |-> Roots[k].label, up |-> 0, subid |-> Roots[k].subid,
                     mods |-> {Base}]
<1>1. /\ DOMAIN Roots = 1 .. Len(Roots) /\ Len(Roots) \in Nat
      /\ \A k \in 1 .. Len(Roots) : Roots[k].label \in STRING /\ Roots[k].subid \in Nat
  <2>1. Roots \in Seq(R)
    BY MibLinkerAssumption
  <2>2. \A r \in R : r.label \in STRING /\ r.subid \in Nat
    OBVIOUS
  <2> HIDE DEF R
  <2>3. DOMAIN Roots = 1 .. Len(Roots) /\ Len(Roots) \in Nat
        /\ \A k \in 1 .. Len(Roots) : Roots[k] \in R
    BY <2>1
  <2> QED  BY <2>2, <2>3
<1>2. tree = {RootAt(k) : k \in 1 .. Len(Roots)}
  BY <1>1 DEF LinkerInit
<1>3. ASSUME NEW k \in 1 .. Len(Roots)
      PROVE  /\ RootAt(k) \in Node /\ RootAt(k).id = k /\ RootAt(k).label = Roots[k].label
             /\ RootAt(k).up = 0 /\ RootAt(k).subid = Roots[k].subid
  <2>1. Base \in STRING
    BY MibLinkerAssumption
  <2> QED  BY <1>1, <2>1 DEF Node
<1> HIDE DEF RootAt
<1>4. IsTree(tree, made)
  <2>1. made = Len(Roots)
    BY DEF LinkerInit
  <2>2. \A n \in tree : n \in Node /\ n.id <= made /\ IsRoot(n)
    <3> SUFFICES ASSUME NEW n \in tree  PROVE n \in Node /\ n.id <= made /\ IsRoot(n)
      OBVIOUS
    <3>1. PICK k \in 1 .. Len(Roots) : n = RootAt(k)
      BY <1>2
    <3> QED  BY <1>1, <1>3, <2>1, <3>1 DEF IsRoot
  <2>3. \A n, o \in tree : n.id = o.id \/ n.label = o.label => n = o
    <3> SUFFICES ASSUME NEW n \in tree, NEW o \in tree, n.id = o.id \/ n.label = o.label
                 PROVE  n = o
      OBVIOUS
    <3>1. PICK k \in 1 .. Len(Roots) : n = RootAt(k)
      BY <1>2
    <3>2. PICK p \in 1 .. Len(Roots) : o = RootAt(p)
      BY <1>2
    <3>3. k = p \/ Roots[k].label = Roots[p].label
      BY <1>3, <3>1, <3>2
    <3>4. k = p
      BY <1>1, <3>3, ConsistentIs
    <3> QED  BY <3>1, <3>2, <3>4
  <2> QED  BY <2>2, <2>3 DEF IsTree
<1>5. top \in Seq(Nat) /\ made \in Nat
  BY <1>1 DEF LinkerInit
<1>6. loaded = {} /\ reading = <<>> /\ orphans = <<>>
  BY DEF LinkerInit
<1>7. loaded \subseteq Modules /\ IsFiniteSet(loaded)
  BY <1>6, FS_EmptySet
<1>8. reading \in Seq([module : Modules, group : Nat])
  BY <1>6
<1>9. orphans \in Seq(AllObjects)
  BY <1>6
<1>10. NothingLost
  BY <1>6 DEF NothingLost
<1>11. reading = <<>> /\ NoneReady(tree, orphans)
  <2>1. Len(orphans) = 0
    BY <1>6
  <2> QED  BY <1>6, <2>1 DEF NoneReady
<1> QED  BY <1>4, <1>5, <1>7, <1>8, <1>9, <1>10, <1>11 DEF LinkerInv

\* A module is opened, and being read.
LEMMA ReadModuleInv ==
    ASSUME LinkerInv, NEW m \in Modules, ReadModule(m)
    PROVE  LinkerInv'
<1> DEFINE R == [module : Modules, group : Nat]
           x == [module |-> m, group |-> 1]
<1>1. /\ reading = <<>> /\ loaded' = loaded \cup {m} /\ reading' = <<x>>
      /\ settled' = FALSE /\ UNCHANGED <<tree, top, made, orphans, unloads>>
  BY DEF ReadModule
<1>2. x \in R /\ x.module = m
  OBVIOUS
<1> HIDE DEF x, R
<1>3. reading' \in Seq(R) /\ Len(reading') = 1 /\ reading'[1] = x
  BY <1>1, <1>2
<1>4. Reading(reading') = {m}
  BY <1>2, <1>3 DEF Reading
<1>5. Reading(reading) = {}
  BY <1>1, ReadingIs DEF LinkerInv
<1>6. NothingLost'
  BY <1>1, <1>4, <1>5 DEF LinkerInv, NothingLost
<1>7. loaded' \subseteq Modules /\ IsFiniteSet(loaded')
  BY <1>1, FS_AddElement DEF LinkerInv
<1> QED  BY <1>1, <1>3, <1>6, <1>7 DEF LinkerInv, R

\* The next import is looked at.
LEMMA ReadImportedInv ==
    ASSUME LinkerInv, ReadImported
    PROVE  LinkerInv'
<1> DEFINE R == [module : Modules, group : Nat]
           here == reading[1]
           from == Imports[here.module][here.group].from
           next == [here EXCEPT !.group = @ + 1]
           rest == <<next>> \o Tail(reading)
           x == [module |-> from, group |-> 1]
<1>1. /\ reading # <<>>
      /\ IF from \in Modules \ loaded
         THEN loaded' = loaded \cup {from} /\ reading' = <<x>> \o rest
         ELSE loaded' = loaded /\ reading' = rest
      /\ UNCHANGED <<tree, top, made, orphans, settled, unloads>>
  BY DEF ReadImported
<1>2. reading \in Seq(R)
  BY DEF LinkerInv
<1>3. Tail(reading) \in Seq(R) /\ here \in R
      /\ Reading(reading) = {here.module} \cup Reading(Tail(reading))
  <2> HIDE DEF R
  <2> QED  BY <1>1, <1>2, ReadingIs
<1>4. next \in R /\ next.module = here.module
  <2>1. here \in R
    BY <1>3
  <2> HIDE DEF here
  <2>2. here = [module |-> here.module, group |-> here.group]
        /\ here.module \in Modules /\ here.group \in Nat
    BY <2>1
  <2> QED  BY <2>2
<1>5. from \in Modules => x \in R /\ x.module = from
  OBVIOUS
<1> HIDE DEF R, next, x
<1>6. rest \in Seq(R) /\ Reading(rest) = Reading(reading)
  <2> DEFINE q == Tail(reading)
  <2>1. q \in Seq(R)
    BY <1>3
  <2> HIDE DEF q
  <2>2. <<next>> \o q \in Seq(R) /\ Reading(<<next>> \o q) = {next.module} \cup Reading(q)
    BY <1>4, <2>1, ReadingIs
  <2> QED  BY <1>3, <1>4, <2>2 DEF q
<1> HIDE DEF rest, from
<1>7. ~settled
  BY <1>1 DEF LinkerInv
<1>8. CASE from \in Modules \ loaded
  <2>1. loaded' = loaded \cup {from} /\ reading' = <<x>> \o rest
    BY <1>1, <1>8
  <2>2. reading' \in Seq(R) /\ Reading(reading') = {from} \cup Reading(reading)
    BY <1>5, <1>6, <1>8, <2>1, ReadingIs
  <2>3. NothingLost'
    BY <1>1, <2>1, <2>2 DEF LinkerInv, NothingLost
  <2>4. loaded' \subseteq Modules /\ IsFiniteSet(loaded')
    BY <1>8, <2>1, FS_AddElement DEF LinkerInv
  <2> QED  BY <1>1, <1>7, <2>2, <2>3, <2>4 DEF LinkerInv, R
<1>9. CASE from \notin Modules \ loaded
  <2>1. loaded' = loaded /\ reading' = rest
    BY <1>1, <1>9
  <2>2. NothingLost'
    BY <1>1, <1>6, <2>1 DEF LinkerInv, NothingLost
  <2> QED  BY <1>1, <1>6, <1>7, <2>1, <2>2 DEF LinkerInv, R
<1> QED  BY <1>8, <1>9

\* What is linked stays linked while the tree grows.
LEMMA LinkedStays ==
    ASSUME NEW t, NEW r, Grows(t, r), NEW n, IsLinked(t, n)
    PROVE  IsLinked(r, n)
BY DEF Grows, IsLinked

\* A module ends, and what it defines is linked.
LEMMA EndModuleInv ==
    ASSUME Consistent, LinkerInv, EndModule, NothingFreedIsLinked
    PROVE  LinkerInv'
<1> DEFINE R == [module : Modules, group : Nat]
           m == reading[1].module
           s == Linked(m)
<1>1. /\ reading # <<>> /\ reading' = Tail(reading)
      /\ IF m \in Broken THEN UNCHANGED <<tree, made, orphans>>
         ELSE tree' = s.tree /\ made' = s.made /\ orphans' = Orphaned(s.pending)
      /\ UNCHANGED <<top, loaded, settled, unloads>>
  BY DEF EndModule
<1>2. /\ IsTree(tree, made) /\ made \in Nat /\ top \in Seq(Nat)
      /\ reading \in Seq(R) /\ orphans \in Seq(AllObjects) /\ NothingLost
  BY DEF LinkerInv
<1>3. /\ Tail(reading) \in Seq(R) /\ reading[1] \in R
      /\ Reading(reading) = {m} \cup Reading(Tail(reading))
  <2> HIDE DEF R
  <2> QED  BY <1>1, <1>2, ReadingIs
<1>4. m \in Modules
  BY <1>3
<1> HIDE DEF m, R
<1>5. ~settled /\ ~settled'
  BY <1>1 DEF LinkerInv
<1>6. CASE m \in Broken
  <2>1. NothingLost'
    BY <1>1, <1>2, <1>3, <1>6 DEF NothingLost
  <2> QED  BY <1>1, <1>3, <1>5, <1>6, <2>1 DEF LinkerInv, R
<1>7. CASE m \notin Broken
  <2>1. tree' = s.tree /\ made' = s.made /\ orphans' = Orphaned(s.pending)
    BY <1>1, <1>7
  <2>2. /\ s \in LinkStates /\ Grows(tree, s.tree)
        /\ \A n \in ToSet(Objects(m)) : Has(s.pending, n) \/ IsLinked(s.tree, n)
    BY <1>2, <1>4, <1>7, LinkedIs
  <2> HIDE DEF s
  <2>3. IsTree(s.tree, s.made) /\ s.made \in Nat /\ s.pending \in Seq(AllObjects)
    BY <2>2, StatesAre
  <2>4. /\ Orphaned(s.pending) \in Seq(AllObjects)
        /\ \A n : Has(s.pending, n) \/ Has(orphans, n) => Has(Orphaned(s.pending), n)
    BY <1>2, <2>3, OrphanedIs
  <2>5. NothingLost'
    <3> SUFFICES ASSUME NEW o \in (loaded' \ Broken) \ Reading(reading'),
                        NEW n \in ToSet(Objects(o))
                 PROVE  IsLinked(tree', n) \/ Has(orphans', n)
      BY DEF NothingLost
    <3>1. CASE o = m
      BY <2>1, <2>2, <2>4, <3>1
    <3>2. CASE o # m
      <4>1. o \in (loaded \ Broken) \ Reading(reading)
        BY <1>1, <1>3, <3>2
      <4>2. IsLinked(tree, n) \/ Has(orphans, n)
        BY <1>2, <4>1 DEF NothingLost
      <4> QED  BY <2>1, <2>2, <2>4, <4>2, LinkedStays
    <3> QED  BY <3>1, <3>2
  <2> QED  BY <1>1, <1>3, <1>5, <2>1, <2>3, <2>4, <2>5 DEF LinkerInv, R
<1> QED  BY <1>6, <1>7

\* The orphans are adopted.
LEMMA AdoptOrphansInv ==
    ASSUME Consistent, LinkerInv, AdoptOrphans
    PROVE  LinkerInv'
<1>1. /\ reading = <<>> /\ settled' = TRUE /\ UNCHANGED <<top, loaded, reading, unloads>>
  BY DEF AdoptOrphans
<1>2. IsTree(tree, made) /\ made \in Nat /\ orphans \in Seq(AllObjects) /\ NothingLost
      /\ loaded \subseteq Modules
  BY DEF LinkerInv
<1>3. /\ IsTree(tree', made') /\ made' \in Nat /\ orphans' \in Seq(AllObjects)
      /\ Grows(tree, tree') /\ NoneReady(tree', orphans')
      /\ \A n \in AllObjects : Has(orphans, n) => Has(orphans', n) \/ IsLinked(tree', n)
  BY <1>2, AdoptOrphansIs
<1>4. NothingLost'
  <2> SUFFICES ASSUME NEW m \in (loaded' \ Broken) \ Reading(reading'),
                      NEW n \in ToSet(Objects(m))
               PROVE  IsLinked(tree', n) \/ Has(orphans', n)
    BY DEF NothingLost
  <2>1. m \in (loaded \ Broken) \ Reading(reading)
    BY <1>1
  <2>2. IsLinked(tree, n) \/ Has(orphans, n)
    BY <1>2, <2>1 DEF NothingLost
  <2>3. n \in AllObjects
    BY <1>2, <2>1 DEF AllObjects
  <2> QED  BY <1>3, <2>2, <2>3, LinkedStays
<1> QED  BY <1>1, <1>3, <1>4 DEF LinkerInv

\* A module is unloaded.
LEMMA UnloadModuleInv ==
    ASSUME LinkerInv, NEW m \in Modules, UnloadModule(m)
    PROVE  LinkerInv'
<1> DEFINE without == {[n EXCEPT !.mods = @ \ {m}] : n \in tree}
           r == Needed(without)
           kept == {n.id : n \in r}
           d == Leading(kept)
<1>1. /\ reading = <<>> /\ loaded' = loaded \ {m} /\ tree' = r
      /\ top' = SubSeq(top, d + 1, Len(top))
      /\ UNCHANGED <<made, reading, orphans, settled>>
  BY DEF UnloadModule
<1>2. IsTree(tree, made) /\ made \in Nat /\ top \in Seq(Nat) /\ NothingLost
      /\ loaded \subseteq Modules /\ IsFiniteSet(loaded)
  BY DEF LinkerInv
<1>3. /\ IsTree(r, made)
      /\ \A v \in r : \E n \in tree : v.label = n.label
      /\ \A n \in tree : \A o \in n.mods : o # m =>
             \E v \in r : v.label = n.label /\ o \in v.mods
  <2>1. r = Needed(Without(tree, m))
    BY DEF Without
  <2> HIDE DEF r
  <2> QED  BY <1>2, <2>1, NeededIs DEF StillThere
<1>4. d \in 0 .. Len(top)
  <2> HIDE DEF kept
  <2> QED  BY <1>2, LeadingIs
<1> HIDE DEF r, d
<1>5. top' \in Seq(Nat)
  BY <1>1, <1>2, <1>4
<1>6. loaded' \subseteq Modules /\ IsFiniteSet(loaded')
  BY <1>1, <1>2, FS_Subset
<1>7. NothingLost'
  <2> SUFFICES ASSUME NEW o \in (loaded' \ Broken) \ Reading(reading'),
                      NEW n \in ToSet(Objects(o))
               PROVE  IsLinked(tree', n) \/ Has(orphans', n)
    BY DEF NothingLost
  <2>1. o \in (loaded \ Broken) \ Reading(reading) /\ o # m
    BY <1>1
  <2>2. IsLinked(tree, n) \/ Has(orphans, n)
    BY <1>2, <2>1 DEF NothingLost
  <2>3. n.mod = o
    <3>1. o \in Modules \ Broken
      BY <1>2, <2>1
    <3>2. PICK k \in DOMAIN Objects(o) : n = Objects(o)[k]
      BY DEF ToSet
    <3>3. Objects(o) \in Seq(AllObjects) /\ \A p \in 1 .. Len(Objects(o)) : Objects(o)[p].mod = o
      BY <3>1, ObjectsAre
    <3>4. DOMAIN Objects(o) = 1 .. Len(Objects(o))
      BY <3>3
    <3> QED  BY <3>2, <3>3, <3>4
  <2>4. IsLinked(tree, n) => IsLinked(r, n)
    BY <1>3, <2>1, <2>3 DEF IsLinked
  <2> QED  BY <1>1, <2>2, <2>4
<1>8. settled => NoneReady(r, orphans)
  <2> SUFFICES ASSUME settled, NEW k \in 1 .. Len(orphans), NEW v \in r
               PROVE  v.label # orphans[k].parent
    BY DEF NoneReady
  <2>1. PICK n \in tree : v.label = n.label
    BY <1>3
  <2> QED  BY <2>1 DEF LinkerInv, NoneReady
<1> QED  BY <1>1, <1>3, <1>5, <1>6, <1>7, <1>8 DEF LinkerInv

\* The tree, the orphans and the modules that are loaded agree, in whatever order
\* modules are read, linked and unloaded: nothing that a module defines gets lost.
THEOREM LinkerInvariant == ASSUME Consistent PROVE LinkerSpec => []LinkerInv
<1>1. LinkerInit => LinkerInv
  BY LinkerInitInv
<1>2. ASSUME LinkerInv, [LinkerNext]_linkerVars
      PROVE  LinkerInv'
  <2>1. CASE UNCHANGED linkerVars
    BY <1>2, <2>1 DEF linkerVars, LinkerInv, NothingLost
  <2>2. CASE LinkerNext
    <3>1. NothingFreedIsLinked
      BY <2>2 DEF LinkerNext
    <3>2. CASE \E m \in Modules : ReadModule(m)
      BY <1>2, <3>2, ReadModuleInv
    <3>3. CASE \E m \in Modules : UnloadModule(m)
      BY <1>2, <3>3, UnloadModuleInv
    <3>4. CASE ReadImported
      BY <1>2, <3>4, ReadImportedInv
    <3>5. CASE EndModule
      BY <1>2, <3>1, <3>5, EndModuleInv
    <3>6. CASE AdoptOrphans
      BY <1>2, <3>6, AdoptOrphansInv
    <3> QED  BY <2>2, <3>2, <3>3, <3>4, <3>5, <3>6 DEF LinkerNext
  <2> QED  BY <1>2, <2>1, <2>2
<1>3. LinkerInv /\ [LinkerNext]_linkerVars => LinkerInv'
  BY <1>2
<1> QED  BY <1>1, <1>3, PTL DEF LinkerSpec

\* There are finitely many definitions, each of a module that is loaded.
LEMMA DefinitionsAre ==
    ASSUME LinkerInv
    PROVE  /\ IsFiniteSet(Definitions) /\ Definitions \subseteq AllObjects
           /\ \A n \in Definitions : n.mod \in loaded \ Broken /\ n \in ToSet(Objects(n.mod))
<1> DEFINE D == {ToSet(Objects(m)) : m \in loaded \ Broken}
           f == [m \in loaded \ Broken |-> ToSet(Objects(m))]
<1>1. loaded \subseteq Modules /\ IsFiniteSet(loaded)
  BY DEF LinkerInv
<1>2. ASSUME NEW m \in loaded \ Broken
      PROVE  /\ IsFiniteSet(ToSet(Objects(m))) /\ ToSet(Objects(m)) \subseteq AllObjects
             /\ \A n \in ToSet(Objects(m)) : n.mod = m
  <2> DEFINE q == Objects(m)
  <2>1. q \in Seq(AllObjects) /\ \A k \in 1 .. Len(q) : q[k].mod = m
    BY <1>1, ObjectsAre
  <2> HIDE DEF q
  <2>2. /\ Len(q) \in Nat /\ DOMAIN q = 1 .. Len(q)
        /\ \A k \in 1 .. Len(q) : q[k] \in AllObjects
    BY <2>1
  <2>3. IsFiniteSet(DOMAIN q)
    BY <2>2, FS_Interval
  <2>4. q \in Surjection(DOMAIN q, ToSet(q))
    <3>1. q = [k \in DOMAIN q |-> q[k]]
      BY <2>1
    <3> QED  BY <3>1 DEF Surjection, ToSet
  <2>5. IsFiniteSet(ToSet(q))
    BY <2>3, <2>4, FS_Surjection
  <2> QED  BY <2>1, <2>2, <2>5 DEF ToSet, q
<1>3. IsFiniteSet(D)
  <2>1. IsFiniteSet(loaded \ Broken)
    BY <1>1, FS_Subset
  <2>2. f \in Surjection(loaded \ Broken, D)
    BY DEF Surjection
  <2> HIDE DEF f, D
  <2> QED  BY <2>1, <2>2, FS_Surjection
<1>4. \A T \in D : IsFiniteSet(T)
  BY <1>2
<1>5. Definitions = UNION D
  BY DEF Definitions
<1> HIDE DEF D
<1>6. IsFiniteSet(Definitions)
  BY <1>3, <1>4, <1>5, FS_UNION
<1>7. ASSUME NEW n \in Definitions
      PROVE  n \in AllObjects /\ n.mod \in loaded \ Broken /\ n \in ToSet(Objects(n.mod))
  <2>1. PICK m \in loaded \ Broken : n \in ToSet(Objects(m))
    BY <1>5 DEF D
  <2> QED  BY <1>2, <2>1
<1> QED  BY <1>6, <1>7

\* A node of the tree as it is known by its label and OID, if it is there for each
\* of the modules that define it.
Known ==
    {[label |-> t.label, oid |-> OidOf(tree)[t.id]] :
        t \in {u \in tree : \A n \in Definitions : n.label = u.label => n.mod \in u.mods}}

\* When no orphan has a parent, what has one in the tree is there for its module.
LEMMA LinkedBelow ==
    ASSUME LinkerInv, settled, NEW n \in Definitions, NEW p \in tree, p.label = n.parent
    PROVE  IsLinked(tree, n)
<1>1. n.mod \in loaded \ Broken /\ n \in ToSet(Objects(n.mod))
  BY DefinitionsAre
<1>2. reading = <<>> /\ NoneReady(tree, orphans) /\ NothingLost
  BY DEF LinkerInv
<1>3. Reading(reading) = {}
  BY <1>2, ReadingIs DEF LinkerInv
<1>4. IsLinked(tree, n) \/ Has(orphans, n)
  BY <1>1, <1>2, <1>3 DEF NothingLost
<1>5. ~Has(orphans, n)
  BY <1>2 DEF Has, NoneReady
<1> QED  BY <1>4, <1>5

\* What is defined below something known becomes known.
LEMMA KnownBelow ==
    ASSUME Consistent, LinkerInv, settled, NEW n \in Definitions, NEW q \in Known,
           n.parent = q.label
    PROVE  [label |-> n.label, oid |-> q.oid \o <<n.subid>>] \in Known
<1>1. IsTree(tree, made)
  BY DEF LinkerInv
<1>2. PICK p \in tree : q.label = p.label /\ q.oid = OidOf(tree)[p.id]
  BY DEF Known
<1>3. PICK u \in tree : u.label = n.label
  BY <1>2, LinkedBelow DEF IsLinked
<1>4. n \in AllObjects /\ Definitions \subseteq AllObjects
  BY DefinitionsAre
<1>5. \A o \in Definitions : o.label = u.label => o.mod \in u.mods
  <2> SUFFICES ASSUME NEW o \in Definitions, o.label = u.label  PROVE o.mod \in u.mods
    OBVIOUS
  <2>1. o.parent = n.parent
    BY <1>3, <1>4, ConsistentIs
  <2>2. IsLinked(tree, o)
    BY <1>2, <2>1, LinkedBelow
  <2>3. PICK v \in tree : v.label = o.label /\ o.mod \in v.mods
    BY <2>2 DEF IsLinked
  <2>4. v = u
    BY <1>1, <2>3, NodesAre
  <2> QED  BY <2>3, <2>4
<1>6. u.up # 0
  <2>1. ~IsRoot(u)
    BY <1>3, <1>4, ConsistentIs DEF IsRoot
  <2> QED  BY <1>1, <2>1, NodesAre
<1>7. PICK v \in tree, o \in AllObjects :
          v.id = u.up /\ o.label = u.label /\ o.parent = v.label /\ o.subid = u.subid
  BY <1>1, <1>6, NodesAre DEF Hangs
<1>8. o.parent = n.parent /\ o.subid = n.subid
  BY <1>3, <1>4, <1>7, ConsistentIs
<1>9. v = p
  <2>1. v.label = p.label
    BY <1>2, <1>7, <1>8
  <2> QED  BY <1>1, <2>1, NodesAre
<1>10. OidOf(tree)[u.id] = q.oid \o <<n.subid>>
  <2>1. OidOf(tree)[u.id] = (IF u.up = 0 THEN <<>> ELSE OidOf(tree)[u.up]) \o <<u.subid>>
    BY <1>1, OidIs
  <2> QED  BY <1>2, <1>6, <1>7, <1>8, <1>9, <2>1
<1> QED  BY <1>3, <1>5, <1>10 DEF Known

\* What the modules define down from the roots is known.
LEMMA DefinedIs ==
    ASSUME Consistent, LinkerInv, settled
    PROVE  Defined \subseteq Known
<1> DEFINE n == Cardinality(Definitions)
           V == SUBSET Known
           start == {[label |-> t.label, oid |-> <<t.subid>>] : t \in {u \in tree : u.up = 0}}
           extended(known) == known \cup
               {[label |-> p[1].label, oid |-> p[2].oid \o <<p[1].subid>>] :
                   p \in {q \in Definitions \X known : q[1].parent = q[2].label}}
           Steps(f) == [k \in 0 .. n |-> IF k = 0 THEN start ELSE extended(f[k - 1])]
           steps == CHOOSE f : f = Steps(f)
           g == [v \in V |-> extended(v)]
<1>1. n \in Nat
  BY DefinitionsAre, FS_CardinalityType
<1>2. start \in V
  <2> SUFFICES ASSUME NEW t \in tree, t.up = 0
               PROVE  [label |-> t.label, oid |-> <<t.subid>>] \in Known
    OBVIOUS
  <2>1. IsTree(tree, made)
    BY DEF LinkerInv
  <2>2. OidOf(tree)[t.id] = <<>> \o <<t.subid>>
    BY <2>1, OidIs
  <2>3. <<>> \o <<t.subid>> = <<t.subid>>
    OBVIOUS
  <2>4. \A o \in Definitions : o.label # t.label
    <3>1. IsRoot(t) /\ Definitions \subseteq AllObjects
      BY <2>1, NodesAre, DefinitionsAre
    <3> QED  BY <3>1, ConsistentIs DEF IsRoot
  <2> QED  BY <2>2, <2>3, <2>4 DEF Known
<1>3. ASSUME NEW v \in V  PROVE extended(v) \in V
  <2> SUFFICES ASSUME NEW o \in Definitions, NEW q \in v, o.parent = q.label
               PROVE  [label |-> o.label, oid |-> q.oid \o <<o.subid>>] \in Known
    OBVIOUS
  <2> QED  BY KnownBelow
<1>4. Defined = steps[n]
  BY DEF Defined
<1> HIDE DEF start, extended, n, V
<1>5. g \in [V -> V] /\ \A v \in V : g[v] = extended(v)
  BY <1>3
<1> HIDE DEF g
<1>6. PICK f \in [0 .. n -> V] : f[0] = start /\ \A k \in 1 .. n : f[k] = g[f[k - 1]]
  <2>1. \E f : Iterates(f, V, start, n, g)
    BY <1>1, <1>2, <1>5, IterationOn
  <2> QED  BY <2>1 DEF Iterates
<1>7. \E h : h = Steps(h)
  <2>1. ASSUME NEW k \in 0 .. n  PROVE f[k] = IF k = 0 THEN start ELSE extended(f[k - 1])
    <3>1. CASE k = 0
      BY <1>6, <3>1
    <3>2. CASE k # 0
      <4>1. k \in 1 .. n /\ k - 1 \in 0 .. n
        BY <1>1, <3>2
      <4>2. f[k - 1] \in V
        BY <1>6, <4>1
      <4> QED  BY <1>5, <1>6, <3>2, <4>1, <4>2
    <3> QED  BY <3>1, <3>2
  <2>2. f = Steps(f)
    BY <1>6, <2>1
  <2> HIDE DEF Steps
  <2> QED  BY <2>2
<1>8. steps = Steps(steps)
  <2> HIDE DEF Steps
  <2> QED  BY <1>7
<1>9. steps[0] = start /\ \A k \in 1 .. n : steps[k] = extended(steps[k - 1])
  <2>1. \A k \in 0 .. n : steps[k] = IF k = 0 THEN start ELSE extended(steps[k - 1])
    <3> HIDE DEF steps
    <3> QED  BY <1>8
  <2> HIDE DEF steps
  <2>2. \A k \in 1 .. n : k \in 0 .. n /\ k # 0
    BY <1>1
  <2> QED  BY <1>1, <2>1, <2>2
<1> HIDE DEF steps, Steps
<1>10. \A k \in 1 .. n : steps[k - 1] \in V => steps[k] \in V
  BY <1>3, <1>9
<1>11. \A k \in 0 .. n : steps[k] \in V
  BY <1>1, <1>2, <1>9, <1>10, StaysIn
<1> QED  BY <1>1, <1>4, <1>11 DEF V

\* In whatever order modules are read and unloaded, and however they import from
\* each other: each object of a loaded module whose parents are defined down from a
\* root is in the tree once the orphans are adopted, for its module and with the OID
\* that the definitions give it.
THEOREM ObjectsAreLinked == ASSUME Consistent PROVE LinkerSpec => []EverythingIsLinked
<1>1. ASSUME LinkerInv  PROVE EverythingIsLinked
  <2> SUFFICES ASSUME settled, NEW n \in Definitions, NEW d \in Defined, d.label = n.label
               PROVE  Cardinality({t \in tree : /\ t.label = n.label /\ n.mod \in t.mods
                                                /\ OidOf(tree)[t.id] = d.oid}) = 1
    BY DEF EverythingIsLinked
  <2> DEFINE E == {t \in tree : /\ t.label = n.label /\ n.mod \in t.mods
                                /\ OidOf(tree)[t.id] = d.oid}
  <2>1. d \in Known
    BY <1>1, DefinedIs
  <2>2. PICK t \in tree : /\ d.label = t.label /\ d.oid = OidOf(tree)[t.id]
                          /\ \A o \in Definitions : o.label = t.label => o.mod \in t.mods
    BY <2>1 DEF Known
  <2>3. IsTree(tree, made)
    BY <1>1 DEF LinkerInv
  <2>4. \A u \in tree : u.label = n.label => u = t
    BY <2>2, <2>3, NodesAre
  <2>5. E = {t}
    BY <2>2, <2>4
  <2> HIDE DEF E
  <2>6. Cardinality(E) = 1
    BY <2>5, FS_Singleton
  <2> QED  BY <2>6 DEF E
<1>2. LinkerInv => EverythingIsLinked
  BY <1>1
<1> QED  BY <1>2, LinkerInvariant, PTL

=============================================================================

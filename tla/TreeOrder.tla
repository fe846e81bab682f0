----------------------------- MODULE TreeOrder -----------------------------
(***************************************************************************)
(* Form::appendChildrenMibTree (mibBrowser/form.cpp): the order in which   *)
(* the children of a MIB node become items of the tree.                    *)
(*                                                                         *)
(* The parser's list of peers is copied to `elements', sorted by           *)
(* descending sub-identifier with an exchange sort and then reversed.  An  *)
(* element is the place of its node in the list of peers; peers of         *)
(* different modules may have the same sub-identifier.  Positions count    *)
(* from 1, one step is one iteration of a loop.                            *)
(***************************************************************************)
EXTENDS Naturals

CONSTANTS N,            \* number of peers
          MaxSubid      \* bound on their sub-identifiers

ASSUME TreeOrderAssumption == N \in Nat /\ MaxSubid \in Nat

VARIABLES subid,        \* sub-identifier of each peer
          elements,     \* the vector
          phase,        \* "sort", "reverse" or "done"
          i, j          \* loop counters

vars == <<subid, elements, phase, i, j>>

Init ==
    /\ subid \in [1 .. N -> 0 .. MaxSubid]
    /\ elements = [k \in 1 .. N |-> k]
    /\ phase = "sort"
    /\ i = 1
    /\ j = 2

At(k) == subid[elements[k]]

Exchanged(a, b) == [elements EXCEPT ![a] = elements[b], ![b] = elements[a]]

\* Mutant: neighbours are compared, as in one pass of a bubble sort.
CompareNeighbours ==
    /\ phase = "sort"
    /\ i <= N /\ j <= N
    /\ elements' = IF At(j) > At(j - 1) THEN Exchanged(j - 1, j) ELSE elements
    /\ j' = j + 1
    /\ UNCHANGED <<subid, phase, i>>

\* Body of the inner loop.
Compare ==
    /\ phase = "sort"
    /\ i <= N /\ j <= N
    /\ elements' = IF At(j) > At(i) THEN Exchanged(i, j) ELSE elements
    /\ j' = j + 1
    /\ UNCHANGED <<subid, phase, i>>

\* The inner loop ends.
NextRow ==
    /\ phase = "sort"
    /\ i <= N /\ j > N
    /\ i' = i + 1
    /\ j' = i + 2
    /\ UNCHANGED <<subid, elements, phase>>

\* The outer loop ends.
StartReversal ==
    /\ phase = "sort"
    /\ i > N
    /\ phase' = "reverse"
    /\ i' = 1
    /\ UNCHANGED <<subid, elements, j>>

\* i < elements.size() / 2
ExchangeEnds ==
    /\ phase = "reverse"
    /\ 2 * i <= N
    /\ elements' = Exchanged(i, N - i + 1)
    /\ i' = i + 1
    /\ UNCHANGED <<subid, phase, j>>

Finish ==
    /\ phase = "reverse"
    /\ 2 * i > N
    /\ phase' = "done"
    /\ UNCHANGED <<subid, elements, i, j>>

Next == Compare \/ NextRow \/ StartReversal \/ ExchangeEnds \/ Finish

Spec == Init /\ [][Next]_vars /\ WF_vars(Next)

-----------------------------------------------------------------------------
(* Properties.                                                             *)

TypeOK ==
    /\ subid \in [1 .. N -> 0 .. MaxSubid]
    /\ elements \in [1 .. N -> 1 .. N]
    /\ phase \in {"sort", "reverse", "done"}
    /\ i \in 1 .. N + 1
    /\ j \in 2 .. N + 2

\* The children of a node stand in the tree in the order of their sub-
\* identifiers, which is the MIB order of a walk.
Sorted ==
    phase = "done" => \A a, b \in 1 .. N : a < b => At(a) <= At(b)

\* No peer is lost and none becomes two items, at any moment of the sort.
EveryPeerOnce ==
    \A k \in 1 .. N : \E p \in 1 .. N :
        elements[p] = k /\ \A q \in (1 .. N) \ {p} : elements[q] # k

\* A node's children become its items, each once and in MIB order.
TreeInOrder == Sorted /\ EveryPeerOnce

=============================================================================

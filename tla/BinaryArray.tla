---------------------------- MODULE BinaryArray -----------------------------
(***************************************************************************)
(* The container the library and the agent's tables keep their rows in     *)
(* (snmplib/container_binary_array.c): an array that is sorted only when   *)
(* somebody looks something up, and iterators that notice, by a counter,   *)
(* that the container has changed.                                         *)
(*                                                                         *)
(* An entry is its key.  Left out: unsorted containers and memory that     *)
(* cannot be had.                                                          *)
(***************************************************************************)
EXTENDS Integers, Sequences, FiniteSets, SequencesExt

CONSTANTS Keys,         \* numbers
          MaxEntries,   \* bounds the array
          MaxSync       \* bounds the changes

ASSUME BinaryArrayAssumption == Keys \subseteq Nat /\ {MaxEntries, MaxSync} \subseteq Nat

VARIABLES duplicates,   \* CONTAINER_KEY_ALLOW_DUPLICATES (never changes)
          data, dirty,
          sync,         \* the container's count of changes
          pos, itSync,  \* an iterator: its position, from 0, and its count
          disturbed,    \* history: the container changed under the iterator
          ahead         \* history: what an undisturbed iterator has still to give

arrayVars == <<duplicates, data, dirty, sync, pos, itSync, disturbed, ahead>>

ArrayInit ==
    /\ duplicates \in BOOLEAN
    /\ data = <<>> /\ dirty = FALSE /\ sync = 0
    /\ pos = 0 /\ itSync = 0 /\ disturbed = FALSE /\ ahead = <<>>

-----------------------------------------------------------------------------
(* Sorting and searching.                                                  *)

LeastPlace(s) == CHOOSE k \in s : \A j \in s : k <= j
GreatestPlace(s) == CHOOSE k \in s : \A j \in s : k >= j

\* One round of the loop of array_qsort, in the range from first to last.
Round(p, first, last, mid) ==
    LET d == p.d
        a == LeastPlace({k \in p.i .. last : k = last \/ d[k] >= mid})
        b == GreatestPlace({k \in first .. p.j : k = first \/ d[k] <= mid})
    IN  IF a > b THEN [d |-> d, i |-> a, j |-> b]
        ELSE [d |-> [d EXCEPT ![a] = d[b], ![b] = d[a]], i |-> a + 1, j |-> b - 1]

\* The loop, which is left after as many rounds at the latest: [d, i, j].
Partition(d, first, last) ==
    LET mid == d[((first + last - 2) \div 2) + 1]
        loop[n \in 0 .. last - first + 1] ==
            IF n = 0 THEN [d |-> d, i |-> first, j |-> last]
            ELSE LET p == loop[n - 1] IN IF p.i > p.j THEN p ELSE Round(p, first, last, mid)
    IN  loop[last - first + 1]

\* array_qsort, of a range [d, first, last] of more than one entry.
RangesToSort == {r \in [d : Seq(Keys), first : Nat, last : Nat] :
                    1 <= r.first /\ r.first < r.last /\ r.last <= Len(r.d)}

Qsort[r \in RangesToSort] ==
    LET p == Partition(r.d, r.first, r.last)
        left == IF p.j > r.first THEN Qsort[[d |-> p.d, first |-> r.first, last |-> p.j]] ELSE p.d
    IN  IF p.i < r.last THEN Qsort[[d |-> left, first |-> p.i, last |-> r.last]] ELSE left

SortedData ==
    IF dirty /\ Len(data) > 1 THEN Qsort[[d |-> data, first |-> 1, last |-> Len(data)]] ELSE data

\* One round of the loop of binary_search, which ends early at the key.
Halve(d, key, s) ==
    LET half == s.len \div 2
        middle == s.first + half
    IN  IF d[middle] < key THEN [first |-> middle + 1, len |-> s.len - half - 1]
        ELSE IF d[middle] = key THEN [first |-> middle, len |-> 0]
        ELSE [first |-> s.first, len |-> half]

\* Where the loop leaves first, after as many rounds at the latest.
Bisect(d, key) ==
    LET loop[n \in 0 .. Len(d)] ==
            IF n = 0 THEN [first |-> 1, len |-> Len(d)]
            ELSE LET s == loop[n - 1] IN IF s.len = 0 THEN s ELSE Halve(d, key, s)
    IN  loop[Len(d)].first

\* binary_search; 0 for -1.
Search(d, key, exact) ==
    LET first == Bisect(d, key)
    IN  IF first > Len(d) THEN 0
        ELSE IF d[first] # key THEN (IF exact THEN 0 ELSE first)
        ELSE IF exact THEN first
        ELSE IF first = Len(d) THEN 0 ELSE first + 1

\* Mutant: the duplicates are not skipped.
GetNeighbour(d, key, exact) == Search(d, key, exact)

\* netsnmp_binary_array_get with a key; not exact: the next one, behind all
\* duplicates.
Get(d, key, exact) ==
    LET index == Search(d, key, exact)
        behind == {k \in index .. Len(d) : d[k] # key}
    IN  IF index = 0 \/ exact \/ ~duplicates THEN index
        ELSE IF behind = {} THEN 0 ELSE LeastPlace(behind)

\* _ba_find_next
FindNext(key) == LET k == Get(SortedData, key, FALSE) IN IF k = 0 THEN {} ELSE {SortedData[k]}

-----------------------------------------------------------------------------
(* Operations.                                                             *)

\* What this does to an iterator.
Disturb(changed) ==
    /\ disturbed' = (disturbed \/ changed)
    /\ ahead' = IF disturbed \/ changed THEN <<>> ELSE ahead

SyncWhenSorted == IF dirty THEN sync + 1 ELSE sync

\* _ba_find, _ba_find_next, _ba_for_each and what else only sorts.
LookUp ==
    /\ data # <<>> /\ dirty
    /\ data' = SortedData /\ dirty' = FALSE /\ sync' = sync + 1
    /\ Disturb(TRUE)
    /\ UNCHANGED <<duplicates, pos, itSync>>

\* netsnmp_binary_array_insert
InsertKey(key) ==
    LET known == ~duplicates /\ data # <<>> /\ Get(SortedData, key, TRUE) # 0
        looked == ~duplicates /\ data # <<>>
    IN  /\ Len(data) < MaxEntries /\ sync < MaxSync
        /\ IF known
           THEN /\ data' = SortedData /\ dirty' = FALSE /\ sync' = SyncWhenSorted
                /\ Disturb(dirty)
           ELSE /\ data' = Append(IF looked THEN SortedData ELSE data, key)
                /\ dirty' = TRUE /\ sync' = sync + 1 /\ Disturb(TRUE)
        /\ UNCHANGED <<duplicates, pos, itSync>>

\* netsnmp_binary_array_remove_at: what was behind moves down, and only then
\* the change is counted.
RemovedAt(d, count, k) ==
    /\ data' = RemoveAt(d, k)
    /\ sync' = IF k = Len(d) THEN count ELSE count + 1

\* netsnmp_binary_array_remove
RemoveKey(key) ==
    LET index == Get(SortedData, key, TRUE)
    IN  /\ data # <<>> /\ sync < MaxSync
        /\ IF index = 0
           THEN data' = SortedData /\ sync' = SyncWhenSorted /\ Disturb(dirty)
           ELSE RemovedAt(SortedData, SyncWhenSorted, index) /\ Disturb(TRUE)
        /\ dirty' = FALSE
        /\ UNCHANGED <<duplicates, pos, itSync>>

\* netsnmp_binary_array_clear
Clear ==
    /\ sync < MaxSync
    /\ data' = <<>> /\ dirty' = FALSE /\ sync' = sync + 1
    /\ Disturb(TRUE)
    /\ UNCHANGED <<duplicates, pos, itSync>>

\* _ba_iterator_position: the iterator gives an entry.
Yields == itSync = sync /\ 0 <= pos /\ pos < Len(data)

\* _ba_iterator_get and _ba_iterator_reset
ItReset ==
    /\ data' = SortedData /\ dirty' = FALSE /\ sync' = SyncWhenSorted
    /\ pos' = 0 /\ itSync' = sync' /\ disturbed' = FALSE
    /\ ahead' = IF data = <<>> THEN <<>> ELSE Tail(SortedData)
    /\ UNCHANGED duplicates

\* _ba_iterator_next
ItNext ==
    /\ pos <= Len(data)         \* bound: past the end nothing comes
    /\ pos' = pos + 1
    /\ ahead' = IF ahead = <<>> THEN <<>> ELSE Tail(ahead)
    /\ UNCHANGED <<duplicates, data, dirty, sync, itSync, disturbed>>

\* Mutant: the position stays, and the entry moved there is passed over.
ItRemoveInPlace ==
    /\ Yields /\ sync < MaxSync
    /\ itSync' = itSync + 1
    /\ RemovedAt(data, sync, pos + 1)
    /\ UNCHANGED <<duplicates, dirty, pos, disturbed, ahead>>

\* _ba_iterator_remove of the entry the iterator has given.
ItRemove ==
    /\ Yields /\ sync < MaxSync
    /\ itSync' = itSync + 1
    /\ RemovedAt(data, sync, pos + 1)
    /\ pos' = pos - 1
    /\ UNCHANGED <<duplicates, dirty, disturbed, ahead>>

ArrayNext ==
    \/ \E k \in Keys : InsertKey(k) \/ RemoveKey(k)
    \/ LookUp \/ Clear \/ ItReset \/ ItNext \/ ItRemove

ArraySpec == ArrayInit /\ [][ArrayNext]_arrayVars

-----------------------------------------------------------------------------
(* Properties.                                                             *)

\* In whatever order entries came and went, and however often duplicates: a
\* walk by find_next goes through all keys in ascending order, and never stays
\* where it is.
NextIsNext ==
    \A key \in Keys :
        FindNext(key) = {k \in ToSet(data) : k > key /\ \A j \in ToSet(data) : j > key => k <= j}

\* An iterator gives every entry once and in order, also those behind the ones
\* that were removed through it, as long as nobody else changes the container.
\* It may refuse to go on: after the last entry was removed through it its count
\* is ahead of the container's.
VisitsAll ==
    ~disturbed /\ itSync = sync => SubSeq(data, pos + 2, Len(data)) = ahead

=============================================================================

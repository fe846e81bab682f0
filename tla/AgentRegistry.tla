--------------------------- MODULE AgentRegistry ---------------------------
(***************************************************************************)
(* The registry of the agent (agent/agent_registry.c): which registration  *)
(* of a MIB module answers for an OID, while modules and subagents         *)
(* register and unregister.                                                *)
(*                                                                         *)
(* The subtrees of a context are a list of disjoint regions [from, to) in  *)
(* the order of OIDs.  Each has a stack of registrations (the `children'), *)
(* the longest name first, then the lowest priority; a registration that   *)
(* another one splits is in the stacks of several regions.  netsnmp_       *)
(* subtree_find goes through the list, helped by a small cache of places   *)
(* and by the offsets at which neighbours differ (oid_off, here computed    *)
(* from the list, as the code does whenever neighbours change).            *)
(*                                                                         *)
(* An OID is a sequence of sub-identifiers.  Of the three roots registered *)
(* with a context (0, 1 and 2) the model has 1, so that every name lies in *)
(* a region.                                                               *)
(***************************************************************************)
EXTENDS Integers, Sequences, SequencesExt, Subsequence

CONSTANTS Registrable,  \* OIDs that are registered, below <<1>>
          Ranges,       \* [name, subid, ubound]: ranges that are registered
          Priorities,
          Sessions,
          Probes,       \* OIDs that are looked up
          CacheSize     \* the size of the lookup cache

BelowIso(name) == name \in Seq(Nat) /\ Len(name) > 1 /\ name[1] = 1

ASSUME RegistryAssumption ==
    /\ CacheSize \in Nat \ {0}
    /\ Priorities \subseteq Nat
    /\ "null" \notin Sessions
    /\ \A n \in Registrable \cup Probes : BelowIso(n)
    /\ \A r \in Ranges : /\ BelowIso(r.name)
                         /\ r.subid \in 2 .. Len(r.name)
                         /\ r.ubound \in Nat /\ r.name[r.subid] <= r.ubound

VARIABLES regions,      \* the subtrees of the context
          cache,        \* the lookup cache: places in the list, oldest slot first
          slot,         \* currentpos
          cacheSize,    \* lookup_cache_size
          tangled,      \* the links between the regions are no list any more
          live          \* history: what is registered, as its owners see it

registryVars == <<regions, cache, slot, cacheSize, tangled, live>>

-----------------------------------------------------------------------------
(* OIDs.                                                                   *)

\* netsnmp_oid_compare_ll: the offset, from 1, at which two OIDs differ.
Offset(a, b) ==
    CHOOSE k \in 1 .. Len(a) + 1 :
        /\ \A j \in 1 .. k - 1 : j <= Len(b) /\ a[j] = b[j]
        /\ k > Len(a) \/ k > Len(b) \/ a[k] # b[k]

Less(a, b) ==
    LET k == Offset(a, b)
    IN  k <= Len(b) /\ (k > Len(a) \/ a[k] < b[k])

\* The first OID behind the subtree of a.
End(a) == [a EXCEPT ![Len(a)] = @ + 1]

Holds(region, name) == ~Less(name, region.from) /\ Less(name, region.to)

-----------------------------------------------------------------------------
(* netsnmp_subtree_find_prev and netsnmp_subtree_find.  A place is an      *)
(* index of the list; 0 is NULL.                                           *)

\* The entry of the cache that is used: the last one not behind the name.
CacheEntry(name) ==
    LET usable == {i \in DOMAIN cache : ~Less(name, regions[cache[i]].from)}
    IN  IF cacheSize = 0 \/ usable = {} THEN 0
        ELSE CHOOSE i \in usable : \A j \in usable : j <= i

\* A region that differs from the one before it further on than the name does
\* is passed without a comparison.
Skipped(name, i, off) ==
    off # 0 /\ i > 1 /\ Offset(regions[i - 1].from, regions[i].from) > off

\* The search begins at place `start'; off[i] is ll_off behind place i.
SearchFrom(name, start) ==
    LET off[i \in 0 .. Len(regions)] ==
            IF i < start THEN 0
            ELSE IF Skipped(name, i, off[i - 1]) THEN off[i - 1]
            ELSE Offset(name, regions[i].from)
        ends == {i \in start .. Len(regions) :
                    ~Skipped(name, i, off[i - 1]) /\ Less(name, regions[i].from)}
    IN  IF ends = {} THEN Len(regions)
        ELSE (CHOOSE i \in ends : \A j \in ends : i <= j) - 1

\* A place of the cache is the pair of a region and the one behind it, where
\* the search begins.
FindPrev(name) ==
    SearchFrom(name, IF CacheEntry(name) = 0 THEN 1 ELSE cache[CacheEntry(name)] + 1)

Find(name) ==
    LET i == FindPrev(name)
    IN  IF i # 0 /\ Less(name, regions[i].to) THEN i ELSE 0

\* What a lookup leaves in the cache: nothing if it ended at the last region or
\* found a cached region's first OID.
Cached(name) ==
    LET e == CacheEntry(name)
        i == FindPrev(name)
    IN  IF cacheSize = 0 \/ i = 0 \/ i = Len(regions) THEN UNCHANGED <<cache, slot>>
        ELSE IF e # 0
        THEN /\ cache' = IF name = regions[cache[e]].from THEN cache
                         ELSE [cache EXCEPT ![e] = i]
             /\ UNCHANGED slot
        ELSE /\ cache' = IF slot + 1 > Len(cache) THEN Append(cache, i)
                         ELSE [cache EXCEPT ![slot + 1] = i]
             /\ slot' = (slot + 1) % cacheSize

Lookup(name) ==
    /\ Cached(name)
    /\ UNCHANGED <<regions, cacheSize, tangled, live>>

Invalidated == cache' = <<>> /\ slot' = 0

-----------------------------------------------------------------------------
(* netsnmp_subtree_split and netsnmp_subtree_load.                         *)

\* The list with a boundary at x: the region around it is cut in two.
Split(list, x) ==
    LET around == {i \in DOMAIN list : Less(list[i].from, x) /\ Less(x, list[i].to)}
    IN  IF around = {} THEN list
        ELSE LET i == CHOOSE i \in around : TRUE
             IN  InsertAt([list EXCEPT ![i].to = x], i + 1, [list[i] EXCEPT !.from = x])

\* A longer name, or the same with a lower priority, goes first.
Outranks(r, t) ==
    Len(r.name) > Len(t.name) \/ (Len(r.name) = Len(t.name) /\ r.priority < t.priority)

\* How many registrations of a stack stay before a new one.
Ahead(stack, reg) ==
    CHOOSE k \in 0 .. Len(stack) :
        /\ \A j \in 1 .. k : Outranks(stack[j], reg)
        /\ k < Len(stack) => ~Outranks(stack[k + 1], reg)

Duplicate(stack, reg) ==
    \E j \in DOMAIN stack : Len(stack[j].name) = Len(reg.name) /\ stack[j].priority = reg.priority

Push(stack, reg) == InsertAt(stack, 1 + Ahead(stack, reg), reg)

Within(region, from, to) == ~Less(region.from, from) /\ Less(region.from, to)

\* The list with the registration loaded, where it is no duplicate.
Load(list, reg, from, to) ==
    LET cut == Split(Split(list, from), to)
    IN  [i \in DOMAIN cut |->
            IF Within(cut[i], from, to) THEN [cut[i] EXCEPT !.stack = Push(@, reg)] ELSE cut[i]]

\* The first region of a name.
RegionAt(list, name) ==
    LET cut == Split(list, name)
    IN  cut[CHOOSE i \in DOMAIN cut : cut[i].from = name]

Reg(name, priority, session) == [name |-> name, priority |-> priority, session |-> session]

\* netsnmp_register_mib without a range.  A duplicate leaves the boundary that
\* was made at its first OID.
Register(name, priority, session) ==
    LET reg == Reg(name, priority, session)
    IN  /\ IF Duplicate(RegionAt(regions, name).stack, reg)
           THEN /\ regions' = Split(regions, name)
                /\ UNCHANGED live
           ELSE /\ regions' = Load(regions, reg, name, End(name))
                /\ live' = live \cup {reg}
        /\ Invalidated
        /\ UNCHANGED <<cacheSize, tangled>>

Lowest(range) == range.name[range.subid]

Element(range, i) == [range.name EXCEPT ![range.subid] = i]

\* The list with the first subtree of a range loaded.
FirstLoad(range, priority, session) ==
    Load(regions, Reg(range.name, priority, session), range.name, End(range.name))

\* A later subtree is a copy of the first as its load left it, with the
\* sub-identifier replaced in the name, the first OID and the end.
EndOfCopy(range, priority, session, i) ==
    [RegionAt(FirstLoad(range, priority, session), range.name).to EXCEPT
        ![range.subid] = IF range.subid = Len(range.name) THEN i + 1 ELSE i]

\* The list with the first subtree and n copies loaded.
RangeLoad(range, priority, session, n) ==
    LET lists[k \in 0 .. n] ==
            IF k = 0 THEN FirstLoad(range, priority, session)
            ELSE LET i == Lowest(range) + k
                 IN  Load(lists[k - 1], Reg(Element(range, i), priority, session),
                          Element(range, i), EndOfCopy(range, priority, session, i))
    IN  lists[n]

\* A copy has the links of the first subtree too.  If it goes on behind the region
\* where it begins, it is split before it has links of its own, and that changes
\* the neighbours and the stack of the first.
Tangles(range, priority, session) ==
    \E k \in 1 .. range.ubound - Lowest(range) :
        LET i == Lowest(range) + k
            list == RangeLoad(range, priority, session, k - 1)
        IN  \E j \in DOMAIN list :
                /\ Less(Element(range, i), list[j].from)
                /\ Less(list[j].from, EndOfCopy(range, priority, session, i))

\* Only ranges without a duplicate (see the hazards).
NoDuplicate(range, priority) ==
    \A i \in DOMAIN regions : \A j \in DOMAIN regions[i].stack :
        Len(regions[i].stack[j].name) = Len(range.name) => regions[i].stack[j].priority # priority

\* What a tangled registry does is not modelled.
RegisterRange(range, priority, session) ==
    /\ NoDuplicate(range, priority)
    /\ IF Tangles(range, priority, session)
       THEN /\ tangled' = TRUE
            /\ UNCHANGED <<regions, cache, slot, live>>
       ELSE /\ regions' = RangeLoad(range, priority, session, range.ubound - Lowest(range))
            /\ live' = live \cup
                  {Reg(Element(range, i), priority, session) : i \in Lowest(range) .. range.ubound}
            /\ Invalidated
            /\ UNCHANGED tangled
    /\ UNCHANGED cacheSize

-----------------------------------------------------------------------------
(* Unregistration.                                                         *)

Nonempty(list) == Chosen(list, {i \in DOMAIN list : list[i].stack # <<>>})

IsReg(r, name, priority) == r.name = name /\ r.priority = priority

Dropped(region, name, priority) ==
    [region EXCEPT !.stack =
        Chosen(@, {j \in DOMAIN region.stack : ~IsReg(region.stack[j], name, priority)})]

Has(region, name, priority) ==
    \E j \in DOMAIN region.stack : IsReg(region.stack[j], name, priority)

\* Mutant: the slices behind the first one stay.
UnloadFirst(list, name, priority) ==
    Nonempty([i \in DOMAIN list |->
        IF list[i].from = name THEN Dropped(list[i], name, priority) ELSE list[i]])

\* The registration leaves the region of its first OID and those behind it, up
\* to the first one that does not have it.
Unload(list, name, priority) ==
    LET first == CHOOSE i \in DOMAIN list : Holds(list[i], name)
        gone == {i \in first .. Len(list) :
                    \A k \in first .. i : Has(list[k], name, priority)}
    IN  Nonempty([i \in DOMAIN list |->
            IF i \in gone THEN Dropped(list[i], name, priority) ELSE list[i]])

Registered(list, name, priority) ==
    \E i \in DOMAIN list : Holds(list[i], name) /\ Has(list[i], name, priority)

\* unregister_mib_context.  When the name is not there, it returns with the
\* lookup cache still switched off.
Unregister(name, priority) ==
    /\ IF Registered(regions, name, priority)
       THEN /\ regions' = Unload(regions, name, priority)
            /\ Invalidated
            /\ UNCHANGED cacheSize
       ELSE /\ cacheSize' = 0
            /\ UNCHANGED <<regions, cache, slot>>
    /\ live' = {r \in live : ~IsReg(r, name, priority)}
    /\ UNCHANGED tangled

\* ... of a range: sub-identifiers are taken one after another until one is not
\* there or `orig_subid_val + range_ubound' is reached.
Rounds(range) == IF range.ubound > 1 THEN range.ubound ELSE 1

\* The sub-identifier of a round.
InRound(range, k) == Element(range, Lowest(range) + k - 1)

\* The list before the first round and after each.
RangeUnload(range, priority) ==
    LET lists[k \in 0 .. Rounds(range)] ==
            IF k = 0 THEN regions ELSE Unload(lists[k - 1], InRound(range, k), priority)
    IN  lists

\* The rounds that do not find their sub-identifier.
Missing(range, priority) ==
    {k \in 1 .. Rounds(range) :
        ~Registered(RangeUnload(range, priority)[k - 1], InRound(range, k), priority)}

WithoutRange(range, priority, last) ==
    {r \in live : \A i \in Lowest(range) .. last : ~IsReg(r, Element(range, i), priority)}

UnregisterRange(range, priority) ==
    /\ Missing(range, priority) = {}
    /\ regions' = RangeUnload(range, priority)[Rounds(range)]
    /\ live' = WithoutRange(range, priority, range.ubound)
    /\ Invalidated
    /\ UNCHANGED <<cacheSize, tangled>>

\* ... and returns, as above, when one is missing.
UnregisterRangeInPart(range, priority) ==
    \E k \in Missing(range, priority) :
        /\ \A j \in Missing(range, priority) : k <= j
        /\ regions' = RangeUnload(range, priority)[k - 1]
        /\ live' = WithoutRange(range, priority, Lowest(range) + k - 2)
        /\ IF k = 1 THEN UNCHANGED <<cache, slot>> ELSE Invalidated
        /\ cacheSize' = 0
        /\ UNCHANGED tangled

\* unregister_mibs_by_session
UnregisterSession(session) ==
    /\ regions' = Nonempty([i \in DOMAIN regions |->
            LET stack == regions[i].stack
            IN  [regions[i] EXCEPT !.stack =
                    Chosen(stack, {j \in DOMAIN stack : stack[j].session # session})]])
    /\ live' = {r \in live : r.session # session}
    /\ IF regions' = regions THEN UNCHANGED <<cache, slot>> ELSE Invalidated
    /\ UNCHANGED <<cacheSize, tangled>>

-----------------------------------------------------------------------------
Root == Reg(<<1>>, 0, "null")

\* The agent has started and enabled the cache.
RegistryInit ==
    /\ regions = <<[from |-> <<1>>, to |-> <<2>>, stack |-> <<Root>>]>>
    /\ cache = <<>> /\ slot = 0 /\ cacheSize = CacheSize
    /\ tangled = FALSE /\ live = {Root}

RegistryNext ==
    /\ ~tangled
    /\ \/ \E n \in Probes : Lookup(n)
       \/ \E n \in Registrable, p \in Priorities :
            \/ \E s \in Sessions : Register(n, p, s)
            \/ Unregister(n, p)
       \/ \E r \in Ranges, p \in Priorities :
            \/ \E s \in Sessions : RegisterRange(r, p, s)
            \/ UnregisterRange(r, p)
            \/ UnregisterRangeInPart(r, p)
       \/ \E s \in Sessions : UnregisterSession(s)

RegistrySpec == RegistryInit /\ [][RegistryNext]_registryVars

-----------------------------------------------------------------------------
(* Properties.                                                             *)

\* The registrations that claim an OID, and the one that has the first claim.
Claims(name) == {r \in live : IsPrefix(r.name, name)}

FirstClaim(name) ==
    CHOOSE r \in Claims(name) : \A t \in Claims(name) : r = t \/ Outranks(r, t)

\* What can be registered.
Possible ==
    Registrable \cup UNION {{Element(r, i) : i \in Lowest(r) .. r.ubound} : r \in Ranges}

\* The ranges this is promised for begin at 1, and nothing is registered below
\* their first subtree (see the findings: the upper bound is taken for a
\* number, and the end of the first subtree for all).  Below the later ones names
\* may be registered, before and after.
RangesAreClear ==
    \A r \in Ranges :
        Lowest(r) = 1 /\ \A n \in Possible : IsPrefix(r.name, n) => n = r.name

\* Whatever was registered and unregistered before, in whatever order, by
\* whomever, and wherever the lookup cache points, an OID is given to the
\* registration with the longest name, and among those to the one with the
\* lowest priority.  That ends with a range one of whose later subtrees goes on
\* behind the region where it begins, because a name below it was registered first.
FindsTheBest ==
    ~tangled => \A n \in Probes :
        LET place == Find(n) IN place # 0 /\ regions[place].stack[1] = FirstClaim(n)

\* agent_registry.c:1649 says that the parameters should match those used to
\* register the module, and :1666 that the range_ubound is the upper bound of
\* the range: then nothing of a range that was unregistered stays registered.
RangeIsGone == ~tangled => \A i \in DOMAIN regions : ToSet(regions[i].stack) \subseteq live

=============================================================================

----------------------------- MODULE MibLinker ------------------------------
(***************************************************************************)
(* How MIB modules become one tree (snmplib/parse.c): modules are read     *)
(* with the ones they import, their objects are linked below objects of    *)
(* other modules, what finds no parent is an orphan until adopt_orphans,   *)
(* and a module can be unloaded.                                           *)
(*                                                                         *)
(* What a file says is a constant.  Objects are found by label; the hash   *)
(* tables nbuckets and tbuckets are what they look up, in the order within *)
(* one label.  Left out: unnamed objects ({ iso 3 6 }), which are merged,  *)
(* names given twice ({ parent }), replacements of modules, the contents   *)
(* of objects and MIB_REPLACE.                                             *)
(***************************************************************************)
EXTENDS Integers, Sequences, FiniteSets, SequencesExt, Subsequence

CONSTANTS Imports,      \* of every module with a file: sequence of [from, labels]
          Nodes,        \* its objects: sequence of [label, parent, subid]
          Broken,       \* modules with a syntax error behind their imports
          Base,         \* the module the roots belong to
          Roots,        \* the roots, in the order of the list
          MaxUnloads    \* bound

Modules == DOMAIN Imports

ASSUME MibLinkerAssumption ==
    /\ Modules \subseteq STRING \ {"any"} /\ Base \in STRING
    /\ Broken \subseteq Modules /\ MaxUnloads \in Nat
    /\ Imports \in [Modules -> Seq([from : STRING, labels : Seq(STRING)])]
    /\ Nodes \in [Modules -> Seq([label : STRING, parent : STRING, subid : Nat])]
    /\ Roots \in Seq([label : STRING, subid : Nat])

VARIABLES tree,         \* [id, label, up: id of the parent or 0, subid, mods]; a
                        \* larger id was made later
          top,          \* the roots that are linked from tree_head
          made,         \* number of tree nodes made
          loaded,       \* modules with no_imports # -1
          reading,      \* read_module_internal: [module, group], the innermost first
          orphans,      \* orphan_nodes: [label, parent, subid, mod]
          settled,      \* nothing was linked since adopt_orphans
          unloads

linkerVars == <<tree, top, made, loaded, reading, orphans, settled, unloads>>

LinkerInit ==
    /\ tree = {[id |-> k, label |-> Roots[k].label, up |-> 0, subid |-> Roots[k].subid,
                mods |-> {Base}] : k \in DOMAIN Roots}
    /\ top = [k \in DOMAIN Roots |-> k]
    /\ made = Len(Roots)
    /\ loaded = {} /\ reading = <<>> /\ orphans = <<>>
    /\ settled = TRUE /\ unloads = 0

-----------------------------------------------------------------------------
Oldest(nodes) == CHOOSE t \in nodes : \A u \in nodes : t.id <= u.id
Newest(nodes) == CHOOSE t \in nodes : \A u \in nodes : t.id >= u.id

\* find_tree_node; a module that is not known (-1) stands for any.
Found(t, label, module) ==
    {n \in t : n.label = label /\ (module \in Modules => module \in n.mods)}

\* A list of objects on its way into the tree: what is in nbuckets and what
\* do_subtree, and its calls of itself, have taken out to place below a node.
Start(t, count, pending) == [tree |-> t, made |-> count, pending |-> pending, todo |-> <<>>]

\* The peers with the sub-identifier of a node are next to each other, the
\* newest first; objects are placed below the last of them.
Xroot(s, node) == Oldest({t \in s.tree : t.up = node.up /\ t.subid = node.subid})

\* The beginning of do_subtree: the objects that name this label as parent.
Taken(s, node) ==
    LET under == Xroot(s, node).id
        mine == {k \in DOMAIN s.pending : s.pending[k].parent = node.label}
        kids == Chosen(s.pending, mine)
    IN  [s EXCEPT !.pending = Chosen(@, DOMAIN s.pending \ mine),
                  !.todo = [k \in DOMAIN kids |-> [node |-> kids[k], under |-> under]] \o @]

\* Mutant: any object with the sub-identifier is taken for the same.
SameAny(peers, n) == peers # {}

Same(peers, n) == peers # {} /\ Newest(peers).label = n.label

\* One object of do_subtree: known already, or a new node before its peers.
Placed(s) ==
    LET n == s.todo[1].node
        peers == {t \in s.tree : t.up = s.todo[1].under /\ t.subid = n.subid}
        known == Newest(peers)
        tp == IF Same(peers, n)
              THEN [known EXCEPT !.mods = @ \cup {n.mod}]
              ELSE [id |-> s.made + 1, label |-> n.label, up |-> s.todo[1].under,
                    subid |-> n.subid, mods |-> {n.mod}]
        after == IF Same(peers, n)
                 THEN [s EXCEPT !.tree = (@ \ {known}) \cup {tp}, !.todo = Tail(@)]
                 ELSE [s EXCEPT !.tree = @ \cup {tp}, !.made = @ + 1, !.todo = Tail(@)]
    IN  Taken(after, tp)

PlaceNext(s) == IF s.todo = <<>> THEN s ELSE Placed(s)

\* do_subtree, which ends because every round places an object.
DoSubtree(s, node) ==
    LET rounds[k \in 0 .. Len(s.pending)] ==
            IF k = 0 THEN Taken(s, node) ELSE PlaceNext(rounds[k - 1])
    IN  rounds[Len(s.pending)]

\* do_subtree of the newest node with a label, if there is one.
LinkBelow(s, label, module) ==
    LET found == Found(s.tree, label, module)
    IN  IF found = {} THEN s ELSE DoSubtree(s, Newest(found))

-----------------------------------------------------------------------------
Objects(m) == [k \in DOMAIN Nodes[m] |->
    [label |-> Nodes[m][k].label, parent |-> Nodes[m][k].parent,
     subid |-> Nodes[m][k].subid, mod |-> m]]

\* All that a module imports, group after group; the roots when it imports nothing.
ImportList(m) ==
    LET group(g) == [k \in DOMAIN g.labels |-> [label |-> g.labels[k], from |-> g.from]]
        lists[k \in 0 .. Len(Imports[m])] ==
            IF k = 0 THEN <<>> ELSE lists[k - 1] \o group(Imports[m][k])
    IN  IF Imports[m] = <<>>
        THEN [k \in DOMAIN Roots |-> [label |-> Roots[Len(Roots) + 1 - k].label, from |-> Base]]
        ELSE lists[Len(Imports[m])]

\* Below what is imported first, then below the roots.
BelowImports(s, imports) ==
    LET links[k \in 0 .. Len(imports)] ==
            IF k = 0 THEN s ELSE LinkBelow(links[k - 1], imports[k].label, imports[k].from)
    IN  links[Len(imports)]

DoSubtreeOf(s, id) == DoSubtree(s, CHOOSE t \in s.tree : t.id = id)

BelowRoots(s) ==
    LET links[k \in 0 .. Len(top)] ==
            IF k = 0 THEN s
            ELSE DoSubtreeOf(links[k - 1], top[k])
    IN  links[Len(top)]

Linked(m) ==
    BelowRoots(BelowImports(Start(tree, made, Reverse(Objects(m))), ImportList(m)))

\* What is left goes to the orphans, references between them to the front.
Orphaned(left) ==
    LET inner == {k \in DOMAIN left : \E j \in DOMAIN left : left[j].label = left[k].parent}
    IN  Reverse(Chosen(left, inner)) \o orphans \o Chosen(left, DOMAIN left \ inner)

\* netsnmp_read_module: the file is opened, and noted as read.
ReadModule(m) ==
    /\ reading = <<>>
    /\ m \notin loaded
    /\ loaded' = loaded \cup {m}
    /\ reading' = <<[module |-> m, group |-> 1]>>
    /\ settled' = FALSE
    /\ UNCHANGED <<tree, top, made, orphans, unloads>>

\* parse_imports: the next module that is imported from is read first, unless
\* it has been, is being read itself, or has no file.
ReadImported ==
    LET here == reading[1]
        from == Imports[here.module][here.group].from
        rest == <<[here EXCEPT !.group = @ + 1]>> \o Tail(reading)
    IN  /\ reading # <<>>
        /\ here.group <= Len(Imports[here.module])
        /\ IF from \in Modules \ loaded
           THEN /\ loaded' = loaded \cup {from}
                /\ reading' = <<[module |-> from, group |-> 1]>> \o rest
           ELSE UNCHANGED loaded /\ reading' = rest
        /\ UNCHANGED <<tree, top, made, orphans, settled, unloads>>

\* parse, from behind the imports to the END: do_linkup, or a syntax error.
EndModule ==
    LET m == reading[1].module
        s == Linked(m)
    IN  /\ reading # <<>>
        /\ reading[1].group > Len(Imports[m])
        /\ reading' = Tail(reading)
        /\ IF m \in Broken
           THEN UNCHANGED <<tree, made, orphans>>
           ELSE tree' = s.tree /\ made' = s.made /\ orphans' = Orphaned(s.pending)
        /\ UNCHANGED <<top, loaded, settled, unloads>>

\* The first orphan whose parent is anywhere in the tree, and all its peers.
Adopted(s) ==
    LET ready == {k \in DOMAIN s.pending : Found(s.tree, s.pending[k].parent, "any") # {}}
    IN  IF ready = {} THEN s
        ELSE LinkBelow(s, s.pending[CHOOSE k \in ready : \A j \in ready : k <= j].parent, "any")

AdoptOrphans ==
    LET rounds[k \in 0 .. Len(orphans)] ==
            IF k = 0 THEN Start(tree, made, Reverse(orphans)) ELSE Adopted(rounds[k - 1])
        s == rounds[Len(orphans)]
    IN  /\ reading = <<>>
        /\ tree' = s.tree /\ made' = s.made /\ orphans' = s.pending
        /\ settled' = TRUE
        /\ UNCHANGED <<top, loaded, reading, unloads>>

-----------------------------------------------------------------------------
\* The nodes above a node, itself included.
Lineage(t) ==
    LET above[id \in {n.id : n \in t}] ==
            LET up == (CHOOSE n \in t : n.id = id).up
            IN  {id} \cup (IF up = 0 THEN {} ELSE above[up])
    IN  above

\* A node stays for its modules, or for the sake of its children.
Needed(t) == {n \in t : \E u \in t : u.mods # {} /\ n.id \in Lineage(t)[u.id]}

\* How many roots at the front of the list go: unlink_tree takes one out only
\* when it is the first.
Leading(kept) ==
    CHOOSE n \in 0 .. Len(top) :
        /\ \A k \in 1 .. n : top[k] \notin kept
        /\ n < Len(top) => top[n + 1] \in kept

\* unload_module_by_ID
UnloadModule(m) ==
    LET without == {[n EXCEPT !.mods = @ \ {m}] : n \in tree}
        kept == {n.id : n \in Needed(without)}
    IN  /\ reading = <<>>
        /\ m \in loaded
        /\ unloads < MaxUnloads
        /\ unloads' = unloads + 1
        /\ loaded' = loaded \ {m}
        /\ tree' = Needed(without)
        /\ top' = SubSeq(top, Leading(kept) + 1, Len(top))
        /\ UNCHANGED <<made, reading, orphans, settled>>

\* free_tree (parse.c:910) wants a node that is unlinked from the tree: the list
\* of the roots holds none that was freed.  What the program does when it meets
\* one is not defined, and here it ends.
NothingFreedIsLinked == \A k \in DOMAIN top : \E t \in tree : t.id = top[k]

LinkerNext ==
    /\ NothingFreedIsLinked
    /\ \/ \E m \in Modules : ReadModule(m) \/ UnloadModule(m)
       \/ ReadImported \/ EndModule \/ AdoptOrphans

LinkerSpec == LinkerInit /\ [][LinkerNext]_linkerVars

-----------------------------------------------------------------------------
(* Properties.                                                             *)

OidOf(t) ==
    LET oid[id \in {n.id : n \in t}] ==
            LET n == CHOOSE u \in t : u.id = id
            IN  (IF n.up = 0 THEN <<>> ELSE oid[n.up]) \o <<n.subid>>
    IN  oid

\* What the loaded modules define: OIDs by label, from the roots down that are
\* still there (unloading the base module can free them for good).
Definitions == UNION {ToSet(Objects(m)) : m \in loaded \ Broken}

Defined ==
    LET extended(known) == known \cup
            {[label |-> p[1].label, oid |-> p[2].oid \o <<p[1].subid>>] :
                p \in {q \in Definitions \X known : q[1].parent = q[2].label}}
        steps[k \in 0 .. Cardinality(Definitions)] ==
            IF k = 0
            THEN {[label |-> t.label, oid |-> <<t.subid>>] : t \in {u \in tree : u.up = 0}}
            ELSE extended(steps[k - 1])
    IN  steps[Cardinality(Definitions)]

\* What SMI asks of modules, and of which parse.c:1630 only warns: one definition
\* of a label, one label at a place, and none of the roots'.
Consistent ==
    /\ \A m, o \in Modules \ Broken : \A n \in ToSet(Objects(m)), p \in ToSet(Objects(o)) :
           n.label = p.label <=> n.parent = p.parent /\ n.subid = p.subid
    /\ \A m \in Modules \ Broken : \A n \in ToSet(Objects(m)) :
           \A k \in DOMAIN Roots : n.label # Roots[k].label
    /\ \A j, k \in DOMAIN Roots :
           Roots[j].label = Roots[k].label \/ Roots[j].subid = Roots[k].subid => j = k

\* In whatever order modules are read and unloaded, and however they import from
\* each other: when the orphans have been adopted, each object of a loaded module
\* whose parents are defined down from a root is in the tree, once, for its
\* module, and with the OID that the definitions give it.
EverythingIsLinked ==
    settled => \A n \in Definitions : \A d \in Defined : d.label = n.label =>
        Cardinality({t \in tree : /\ t.label = n.label /\ n.mod \in t.mods
                                  /\ OidOf(tree)[t.id] = d.oid}) = 1

=============================================================================

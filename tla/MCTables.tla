------------------------------ MODULE MCTables ------------------------------
(***************************************************************************)
(* Trees and tables.  In the browser: how MIB modules are linked to a      *)
(* tree, the order of its items, the panel's fields, the selection and the *)
(* index window.  In the agent: containers, the registry and access        *)
(* control.  They share no state, so each runs alone: `part' is the one    *)
(* that does.                                                              *)
(***************************************************************************)
EXTENDS TreeOrder, TreeSelection, IndexTable, Vacm, BinaryArray, TableIterator,
        MibNode, AgentRegistry, MibLinker,
        Integers, Sequences, TLC

CONSTANTS Parts,        \* the parts that a run looks at
          system, sysName, ifTable, ifEntry, ifIndex, ifDescr

VARIABLE part

-----------------------------------------------------------------------------
\* Every clause may be absent, two keywords may be mentioned where they do not
\* belong.
MCOptional == {"TEXTUAL-CONVENTION", "SYNTAX", "UNITS", "MAX-ACCESS", "STATUS",
               "INDEX", "DESCRIPTION", "DEFVAL"}

\* A tree of a scalar beside a table with two columns.  "if" is part of four
\* names, "sys" and "sysName" of two and one; the last is also a whole name.
MCItems == {system, sysName, ifTable, ifEntry, ifIndex, ifDescr}
MCChildren ==
    system :> <<sysName>> @@ ifTable :> <<ifEntry>> @@ ifEntry :> <<ifIndex, ifDescr>>
        @@ [item \in {sysName, ifIndex, ifDescr} |-> <<>>]
ItemsOfTables == {ifTable}
MCQueries == {"", "if", "sys", "sysName"}
MCMatching ==
    "" :> <<>> @@ "if" :> <<ifTable, ifEntry, ifIndex, ifDescr>>
        @@ "sys" :> <<system, sysName>> @@ "sysName" :> <<sysName>>
MCExact == "" :> <<>> @@ "if" :> <<>> @@ "sys" :> <<>> @@ "sysName" :> <<sysName>>

\* Three columns numbered without a gap, one value that holds the separator of
\* lines.
MCHeadings == <<1, 2, 3>>
MCAwkward == {<<2, 2>>}

\* Modules that import from each other, from a module without a file and from
\* one with a syntax error; a label that two modules define; a branch that is
\* defined before its parent; nodes below another module's.
Imported(from, labels) == [from |-> from, labels |-> labels]
Object(label, parent, number) == [label |-> label, parent |-> parent, subid |-> number]

MCImports ==
    "smi" :> <<>>
        @@ "a" :> <<Imported("smi", <<"ent">>), Imported("b", <<"x">>)>>
        @@ "b" :> <<Imported("smi", <<"ent">>), Imported("a", <<"sys">>)>>
        @@ "c" :> <<Imported("lost", <<"name">>), Imported("d", <<"z">>)>>
        @@ "d" :> <<Imported("a", <<"sys">>)>>

\* Number 1 makes two labels of the place of "sys".
NodesWith(number) ==
    "smi" :> <<Object("org", "iso", 3), Object("ent", "org", 1)>>
        @@ "a" :> <<Object("sys", "ent", 1), Object("name", "sys", 1)>>
        @@ "b" :> <<Object("y", "x", 1), Object("grp", "ent", number), Object("x", "grp", 2),
                    Object("name", "sys", 1)>>
        @@ "c" :> <<Object("q", "name", 1), Object("r", "z", 1), Object("s", "x", 2),
                    Object("s2", "s", 2)>>
        @@ "d" :> <<Object("z", "sys", 7)>>
MCNodes == NodesWith(1)
ConsistentNodes == NodesWith(2)

MCRoots == <<[label |-> "iso", subid |-> 1], [label |-> "ccitt", subid |-> 0]>>

\* A range that begins at 1, and one that does not; names above the first, at its
\* first subtree, and below its second.
MCRegistrable == {<<1, 1>>, <<1, 1, 1>>, <<1, 1, 2, 1>>}
MCProbes == {<<1, 1>>, <<1, 1, 1, 5>>, <<1, 1, 2>>, <<1, 1, 2, 1>>, <<1, 3>>}
RangeBelow == {[name |-> <<1, 1, 1>>, subid |-> 3, ubound |-> 2]}
RangeAcross == {[name |-> <<1, 0>>, subid |-> 2, ubound |-> 1]}

\* Families that are nested, beside each other and open in a place; entries for
\* one model, for any, and for a context.
Family(subtree, wild, included) ==
    [subtree |-> subtree, wild |-> wild, included |-> included]

MCFamilies ==
    {Family(<<1>>, {}, TRUE), Family(<<1>>, {}, FALSE),
     Family(<<1, 1>>, {}, FALSE), Family(<<1, 1>>, {2}, TRUE),
     Family(<<1, 2>>, {2}, FALSE), Family(<<1, 2>>, {}, TRUE),
     Family(<<1, 1, 1>>, {}, TRUE), Family(<<1, 2, 1>>, {2}, FALSE),
     Family(<<1, 2, 1>>, {2, 3}, TRUE)}
MCAccesses ==
    {[prefix |-> <<>>, exact |-> FALSE, model |-> "usm", level |-> 1],
     [prefix |-> <<>>, exact |-> FALSE, model |-> "any", level |-> 2],
     [prefix |-> <<7>>, exact |-> TRUE, model |-> "any", level |-> 1]}
MCContexts == {<<>>, <<7>>}
MCSubtrees == {<<1>>, <<1, 1>>, <<1, 2>>, <<1, 3>>, <<1, 1, 1>>}
MCDeepest == {<<1, a, b>> : a \in 1 .. 3, b \in 1 .. 2}

\* Variables of a packet that are before, in, between and behind the columns: the
\* second of three may be unregistered.
MCValids == {{}, {2, 4}}
MCNames == {<<>>, <<0>>, <<1, 1, 1>>, <<1, 2>>, <<1, 2, 1>>, <<1, 2, 2>>, <<1, 3, 1>>,
            <<1, 3, 2>>, <<1, 4, 1>>, <<1, 4, 2>>, <<1, 5>>, <<2>>}

\* The first of the ranges meets the condition of the theorems about the registry,
\* the second of the sets of objects that of the theorems about the linker.
ASSUME MCTablesAssumption ==
    /\ Ranges = RangeBelow => RangesAreClear
    /\ Nodes = ConsistentNodes => Consistent

-----------------------------------------------------------------------------
OrderInit == Init
OrderNext == Next

\* A part that does not run has nothing to sort or to read.
NothingToSort ==
    /\ subid = [k \in 1 .. N |-> 0]
    /\ elements = [k \in 1 .. N |-> k]
    /\ phase = "sort" /\ i = 1 /\ j = 2

NothingToRead ==
    /\ node = <<>> /\ lines = <<>> /\ currentString = "none" /\ tmp = <<>>
    /\ field = [k \in Keywords |-> <<>>]

NothingToFind ==
    /\ validColumns = {} /\ rows = {} /\ cells = {} /\ absent = {}
    /\ step = "ask" /\ binding = <<>> /\ skipped = {}

BrowserInit ==
    /\ LinkerInit /\ SelectionInit /\ IndexInit
    /\ IF part = "order" THEN OrderInit ELSE NothingToSort
    /\ IF part = "texts" THEN NodeInit ELSE NothingToRead

AgentInit ==
    /\ ArrayInit /\ (part # "array" => duplicates)
    /\ RegistryInit /\ ControlInit
    /\ IF part = "columns" THEN IteratorInit ELSE NothingToFind

BrowserVars == <<vars, linkerVars, nodeVars, selectionVars, indexVars>>

AgentVars == <<arrayVars, registryVars, controlVars, iteratorVars>>

BrowserNext ==
    \/ /\ part = "linker" /\ LinkerNext
       /\ UNCHANGED <<vars, nodeVars, selectionVars, indexVars>>
    \/ /\ part = "order" /\ OrderNext
       /\ UNCHANGED <<linkerVars, nodeVars, selectionVars, indexVars>>
    \/ /\ part = "texts" /\ NodeNext
       /\ UNCHANGED <<vars, linkerVars, selectionVars, indexVars>>
    \/ /\ part = "selection" /\ SelectionNext
       /\ UNCHANGED <<vars, linkerVars, nodeVars, indexVars>>
    \/ /\ part = "index" /\ IndexNext
       /\ UNCHANGED <<vars, linkerVars, nodeVars, selectionVars>>

AgentNext ==
    \/ /\ part = "array" /\ ArrayNext
       /\ UNCHANGED <<registryVars, controlVars, iteratorVars>>
    \/ /\ part = "registry" /\ RegistryNext
       /\ UNCHANGED <<arrayVars, controlVars, iteratorVars>>
    \/ /\ part = "access" /\ ControlNext
       /\ UNCHANGED <<arrayVars, registryVars, iteratorVars>>
    \/ /\ part = "columns" /\ IteratorNext
       /\ UNCHANGED <<arrayVars, registryVars, controlVars>>

TablesInit == part \in Parts /\ BrowserInit /\ AgentInit

TablesNext ==
    /\ UNCHANGED part
    /\ \/ BrowserNext /\ UNCHANGED AgentVars
       \/ AgentNext /\ UNCHANGED BrowserVars

TablesSpec == TablesInit /\ [][TablesNext]_<<part, BrowserVars, AgentVars>>

=============================================================================

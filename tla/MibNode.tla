------------------------------ MODULE MibNode ------------------------------
(***************************************************************************)
(* What the panel says of a MIB object: Form::appendChildrenMibTree        *)
(* (mibBrowser/form.cpp) splits the text of sprint_realloc_description     *)
(* (snmplib/mib.c) into lines and sorts them into fields by the keywords   *)
(* they contain.                                                           *)
(*                                                                         *)
(* A line is known by its clause, its number in the clause and the         *)
(* keywords its text contains: the one the clause begins with and those a  *)
(* module name or a description happens to mention.                        *)
(***************************************************************************)
EXTENDS Naturals, Sequences, SequencesExt, Subsequence

CONSTANTS Optional,     \* clauses a node may lack
          Mentions,     \* keywords a text may mention
          MaxLines      \* bound on the lines of a description

\* Clauses in the order print_tree_node writes them, before and behind the
\* description; the first is the line with the label, the last the one with the
\* value (INDEX stands for AUGMENTS, OBJECTS and VARIABLES too, UNITS for
\* DISPLAY-HINT).
ClausesBefore == <<"label", "FROM", "TEXTUAL-CONVENTION", "SYNTAX", "UNITS",
                   "MAX-ACCESS", "STATUS", "INDEX">>
ClausesBehind == <<"DEFVAL", "value">>
Clauses == ToSet(ClausesBefore) \cup {"DESCRIPTION"} \cup ToSet(ClausesBehind)

Keywords == {"FROM", "MAX-ACCESS", "SYNTAX", "STATUS", "DESCRIPTION"}

\* Clauses whose text is free: a list of module names, a description.
Free == {"FROM", "DESCRIPTION"}

ASSUME MibNodeAssumption ==
    /\ Optional \subseteq Clauses \ {"label", "FROM", "value"}
    /\ Mentions \subseteq Keywords
    /\ MaxLines \in Nat \ {0}

VARIABLES node,         \* the text of the node, line by line
          lines,        \* the lines still to be read
          currentString,        \* the clause that is read; at first "none"
          tmp, field

nodeVars == <<node, lines, currentString, tmp, field>>

-----------------------------------------------------------------------------
(* print_tree_node and sprint_realloc_description.  The width of 1000000    *)
(* leaves a line break only in a description.                              *)

Line(clause, k, mention) ==
    [clause |-> clause, number |-> k,
     words |-> (IF k = 1 THEN {clause} \cap Keywords ELSE {})
                 \cup IF clause \in Free THEN mention[clause][k] ELSE {}]

\* The text of a node that lacks nothing.
Complete(mention, length) ==
    [k \in 1 .. Len(ClausesBefore) |-> Line(ClausesBefore[k], 1, mention)]
        \o [k \in 1 .. length |-> Line("DESCRIPTION", k, mention)]
        \o [k \in 1 .. Len(ClausesBehind) |-> Line(ClausesBehind[k], 1, mention)]

\* The lines of a text that belong to some clauses.
Of(text, clauses) == Chosen(text, {k \in 1 .. Len(text) : text[k].clause \in clauses})

Written(present, mention, length) == Of(Complete(mention, length), present)

\* Free texts: the keywords that each of their lines mentions.
FreeTexts == [Free -> [1 .. MaxLines -> {{}} \cup {{w} : w \in Mentions}]]

\* The clauses a node may have.
ClauseSets == {present \in SUBSET Clauses : Clauses \ Optional \subseteq present}

Texts == {Written(present, mention, length) :
             present \in ClauseSets, mention \in FreeTexts, length \in 1 .. MaxLines}

-----------------------------------------------------------------------------
NodeInit ==
    /\ node \in Texts
    /\ lines = node
    /\ currentString = "none"
    /\ tmp = <<>>
    /\ field = [k \in Keywords |-> <<>>]

\* The first of these that a line contains decides.
Priority == <<"MAX-ACCESS", "STATUS", "FROM", "SYNTAX", "DESCRIPTION">>

Deciding(line) ==
    LET first == CHOOSE i \in DOMAIN Priority :
                     /\ Priority[i] \in line.words
                     /\ \A j \in 1 .. i - 1 : Priority[j] \notin line.words
    IN  Priority[first]

\* Lines that are left out unless they contain a keyword.
LeftOut(line) == line.clause \in {"UNITS", "TEXTUAL-CONVENTION"}

\* Mutant: the description is its first line.
DescribedOnce(line) == field

\* While the description is read every line but the last is added to it.
Described(line) ==
    IF currentString = "DESCRIPTION" /\ line.clause # "value"
    THEN [field EXCEPT !["DESCRIPTION"] = Append(@, line)]
    ELSE field

\* Lines without a keyword wait for the next keyword.
Collect ==
    /\ lines # <<>>
    /\ LET line == Head(lines) IN
       /\ line.words = {}
       /\ field' = Described(line)
       /\ tmp' = IF LeftOut(line) THEN tmp ELSE Append(tmp, line)
    /\ lines' = Tail(lines)
    /\ UNCHANGED <<node, currentString>>

\* What was collected goes to the field of the clause that ends; a clause that
\* begins again loses it, and so does the description, which has it already.
Flushed(k, f) ==
    IF currentString \in Keywords \ {k, "DESCRIPTION"}
    THEN [f EXCEPT ![currentString] = @ \o tmp]
    ELSE f

Begins(k, line, f) == [f EXCEPT ![k] = Append(@, line)]

\* A line with a keyword ends a clause and begins another.
Switch ==
    /\ lines # <<>>
    /\ LET line == Head(lines) IN
       /\ line.words # {}
       /\ LET k == Deciding(line) IN
          /\ field' = Begins(k, line, Flushed(k, Described(line)))
          /\ currentString' = k
    /\ tmp' = <<>>
    /\ lines' = Tail(lines)
    /\ UNCHANGED node

NodeNext == Collect \/ Switch

NodeSpec == NodeInit /\ [][NodeNext]_nodeVars

-----------------------------------------------------------------------------
(* Properties.                                                             *)

Own(k) == Of(node, {k})

\* No text mentions a keyword, its own in a later line included.
Quiet == \A l \in ToSet(node) : l.words = IF l.number = 1 THEN {l.clause} \cap Keywords ELSE {}

\* When no text mentions a keyword each field holds its own clause, complete
\* and in order, and no line of another field's clause, whichever clauses are
\* absent.  (Lines that have no field, as INDEX, do go to a neighbour.)
FieldsRight == Quiet => \A k \in Keywords : Of(field[k], Keywords) = Own(k)

\* Whatever module names and descriptions mention, the data type, the access
\* and the status shown include those of the object.
HeadingsKept ==
    \A k \in {"SYNTAX", "MAX-ACCESS", "STATUS"} : ToSet(Own(k)) \subseteq ToSet(field[k])

\* Both hold of the panel of every object, once its text is read.
PanelRight == lines = <<>> => FieldsRight /\ HeadingsKept

=============================================================================

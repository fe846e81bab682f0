--------------------------- MODULE TableIterator ----------------------------
(***************************************************************************)
(* A GETNEXT of several variables of one table in the agent: the table     *)
(* helper takes column and index out of each name (agent/helpers/table.c), *)
(* the iterator looks through the rows in whatever order they come, column *)
(* by column, for all variables at once (agent/helpers/table_iterator.c),  *)
(* the table's own handler is asked for the values, and the agent repeats  *)
(* the search for what has none (agent/snmp_agent.c).                      *)
(*                                                                         *)
(* Names are relative to the table's OID: <<1, c, r>> is column c of row r.*)
(* The rows and the handler are the environment's, they do not change      *)
(* during a packet.  Every packet begins with fresh data, so there is one. *)
(* Left out: tables that promise sorted rows (none in the agent does), and *)
(* views.                                                                  *)
(***************************************************************************)
EXTENDS Integers, Sequences, FiniteSets

CONSTANTS VarCount,             \* variables of the packet
          MinColumn, MaxColumn, \* of the registration
          MaxRow,
          Valids,               \* sets of valid columns; {}: not registered
          Names                 \* what may be asked for

ASSUME TableIteratorAssumption ==
    /\ VarCount \in Nat /\ MinColumn \in Nat \ {0} /\ MaxColumn \in Nat /\ MaxRow \in Nat
    /\ \A v \in Valids : v = {} \/ v \subseteq MinColumn .. MaxColumn
    /\ Names \subseteq Seq(Nat)

VARIABLES validColumns,  \* of the registration (never changes)
          rows, cells,   \* the rows, and which columns have a value in which
          absent,        \* columns the handler does not know (these never change)
          step,          \* what comes next
          binding,       \* request->requestvb and what is kept with it
          skipped        \* history: left without an answer before the last column

iteratorVars == <<validColumns, rows, cells, absent, step, binding, skipped>>
Fixed == <<validColumns, rows, cells, absent>>

Columns == MinColumn .. MaxColumn
Bindings == 1 .. VarCount

\* The table is any; the handler says of an empty column that there is no such
\* object, or of each row that there is no such instance.
IteratorInit ==
    /\ validColumns \in Valids
    /\ rows \in SUBSET (1 .. MaxRow)
    /\ cells \in SUBSET ((IF validColumns = {} THEN Columns ELSE validColumns) \X rows)
    /\ absent \in {{}, {c \in Columns : \A r \in rows : <<c, r>> \notin cells}}
    /\ step = "ask" /\ binding = <<>> /\ skipped = {}

-----------------------------------------------------------------------------
(* Helpers of helpers/table.c.                                             *)

Least(s) == CHOOSE k \in s : \A j \in s : k <= j

\* snmp_oid_compare(a, b) < 0
Before(a, b) ==
    \/ Len(a) < Len(b) /\ SubSeq(b, 1, Len(a)) = a
    \/ \E k \in 1 .. Len(a) :
           /\ k <= Len(b) /\ a[k] < b[k]
           /\ SubSeq(a, 1, k - 1) = SubSeq(b, 1, k - 1)

\* netsnmp_closest_column; 0 if there is none.
ClosestColumn(c) ==
    LET further == {v \in validColumns : c <= v}
    IN  IF further = {} THEN 0 ELSE Least(further)

\* Mutant: the last column is thought to be one further.
NextColumnBeyond(c) ==
    IF validColumns # {} THEN ClosestColumn(c + 1)
    ELSE IF c < MaxColumn - 1 THEN c + 1 ELSE 0

\* netsnmp_table_next_column
NextColumn(c) ==
    IF validColumns # {} THEN ClosestColumn(c + 1)
    ELSE IF c < MaxColumn THEN c + 1 ELSE 0

-----------------------------------------------------------------------------
(* A packet.                                                               *)

\* handle_getnext: the names are given to the table.  `here' tells that the
\* variable is this table's in the present pass, `row' the best row so far.
Fresh(name) ==
    [asked |-> name, name |-> name, type |-> "null", here |-> TRUE,
     known |-> FALSE, processed |-> FALSE, colnum |-> 0, row |-> 0]

HandleGetnext ==
    /\ step = "ask"
    /\ \E asked \in [Bindings -> Names] :
           binding' = [k \in Bindings |-> Fresh(asked[k])]
    /\ step' = "table"
    /\ UNCHANGED <<Fixed, skipped>>

\* What table_helper_handler makes of a name: `known' are those with a
\* table_info, which the iterator needs; a column of 0 is one out of range.
Given(b, name, colnum) == [b EXCEPT !.name = name, !.known = TRUE, !.colnum = colnum]

Parsed(b) ==
    LET n == b.name
        c == n[2]
        closest == IF validColumns = {} THEN c ELSE ClosestColumn(c)
    IN  IF Len(n) >= 1 /\ n[1] > 1 THEN b
        ELSE IF Len(n) >= 1 /\ n[1] < 1 THEN Given(b, <<>>, MinColumn)
        ELSE IF Len(n) < 2 THEN Given(b, n, MinColumn)
        ELSE IF c < MinColumn THEN Given(b, <<1>>, MinColumn)
        ELSE IF c > MaxColumn THEN Given(b, n, 0)
        ELSE Given(b, IF closest \in {0, c} THEN n ELSE <<1, c>>, closest)

\* The iterator's preliminary analysis, which skips columns before the first.
Lifted(b) ==
    IF b.known /\ b.colnum < MinColumn - 1 THEN [b EXCEPT !.colnum = MinColumn - 1] ELSE b

Pending == {k \in DOMAIN binding : binding[k].here /\ ~binding[k].processed}

\* table_helper_handler up to its child, and the beginning of the iterator:
\* nothing to do for the child, or an error of all if one name has no
\* table_info beside one that has a column.
Table ==
    /\ step = "table"
    /\ LET parsed == [k \in Bindings |->
                         IF binding[k].here THEN Parsed(binding[k]) ELSE binding[k]]
           here == {k \in Bindings : parsed[k].here}
       IN  IF \A k \in here : parsed[k].colnum = 0
           THEN binding' = parsed /\ step' = "reassign"
           ELSE IF \E k \in here : ~parsed[k].known
           THEN binding' = parsed /\ step' = "error"
           ELSE binding' = [k \in Bindings |-> Lifted(parsed[k])] /\ step' = "scan"
    /\ UNCHANGED <<Fixed, skipped>>

\* netsnmp_check_getnext_reply for every row: the first one behind the name.
Best(b) ==
    LET behind == {r \in rows : Before(b.name, <<1, b.colnum, r>>)}
    IN  IF behind = {} THEN 0 ELSE Least(behind)

\* The loop over each data point.
Scan ==
    /\ step = "scan"
    /\ binding' = [k \in Bindings |->
                      IF k \in Pending /\ binding[k].row = 0
                      THEN [binding[k] EXCEPT !.row = Best(binding[k])] ELSE binding[k]]
    /\ step' = "advance"
    /\ UNCHANGED <<Fixed, skipped>>

\* Who found nothing, and who of them is at the end of the table.
Unfilled == {k \in Pending : binding[k].row = 0}
Ended == {k \in Unfilled : NextColumn(binding[k].colnum) = 0}

\* "Decide which (GETNEXT) requests are not yet filled": those before the first
\* that is at the end of the table go on to their next column, then the loop is
\* left.
Advance ==
    /\ step = "advance"
    /\ LET moved == {k \in Unfilled : \A j \in Ended : k < j}
       IN  /\ binding' = [k \in Bindings |->
                  LET b == binding[k]
                  IN  IF k \in moved THEN [b EXCEPT !.colnum = NextColumn(b.colnum)]
                      ELSE IF k \in Ended /\ \A j \in Ended : k <= j
                      THEN [b EXCEPT !.name = <<1, b.colnum + 1>>, !.processed = TRUE]
                      ELSE b]
           /\ step' = IF moved = {} THEN "call" ELSE "scan"
    /\ UNCHANGED <<Fixed, skipped>>

\* What the table's handler answers for a cell (external).
ValueOf(c, r) ==
    IF <<c, r>> \in cells THEN "value"
    ELSE IF c \in absent THEN "noObject" ELSE "noInstance"

\* sparse_table_helper_handler after the table's handler has answered.
Sparse(b, type) ==
    LET c == NextColumn(b.colnum)
    IN  IF type = "noInstance" THEN [b EXCEPT !.type = "retry"]
        ELSE IF type = "noObject"
        THEN (IF c = 0 THEN b ELSE [b EXCEPT !.type = "retry", !.name = <<1, c>>])
        ELSE [b EXCEPT !.type = type]

\* The iterator's last minute processing, the call of the table's handler, and
\* the way back through the sparse table helper.
Call ==
    /\ step = "call"
    /\ binding' = [k \in Bindings |->
           LET b == binding[k]
               c == NextColumn(b.colnum)
           IN  IF k \notin Pending THEN b
               ELSE IF b.row = 0
               THEN [b EXCEPT !.name = <<1, IF c = 0 THEN MaxColumn + 1 ELSE c>>,
                              !.processed = TRUE]
               ELSE Sparse([b EXCEPT !.name = <<1, b.colnum, b.row>>],
                           ValueOf(b.colnum, b.row))]
    /\ skipped' = skipped \cup (Unfilled \ Ended)
    /\ step' = "reassign"
    /\ UNCHANGED Fixed

\* netsnmp_reassign_requests: what is to be tried again begins anew with the
\* name it has now, what has no value is given to the next table.
Reassigned(b) ==
    IF b.type = "retry"
    THEN [Fresh(b.name) EXCEPT !.asked = b.asked]
    ELSE [b EXCEPT !.here = FALSE]

\* check_getnext_results and the loop of handle_getnext_loop.
Reassign ==
    /\ step = "reassign"
    /\ binding' = [k \in Bindings |-> Reassigned(binding[k])]
    /\ step' = IF \E k \in Bindings : binding'[k].here THEN "table" ELSE "done"
    /\ UNCHANGED <<Fixed, skipped>>

IteratorNext == HandleGetnext \/ Table \/ Scan \/ Advance \/ Call \/ Reassign

IteratorSpec == IteratorInit /\ [][IteratorNext]_iteratorVars

-----------------------------------------------------------------------------
(* Properties.                                                             *)

\* The instances behind a name, and the first of them.
Behind(name) == {<<1, cell[1], cell[2]>> : cell \in {c \in cells : Before(name, <<1, c[1], c[2]>>)}}
First(names) == CHOOSE n \in names : \A m \in names : m = n \/ Before(n, m)

\* A variable is answered with the first existing instance behind what was
\* asked for, whatever other variables the packet has, and is left to the next
\* table if there is none.
AnsweredRight(b) ==
    IF Behind(b.asked) = {} THEN b.type = "null"
    ELSE b.type = "value" /\ b.name = First(Behind(b.asked))

\* GETNEXT finds the next instance for every variable: with rows in any order,
\* holes, columns nobody implements, and the other variables of the packet in
\* another column or at the end.  An error is only that of a name beside the
\* table's entry; the variables that the end of another one cuts off are those
\* of EndsApart.
NextInTable ==
    /\ step = "done" => \A k \in Bindings \ skipped : AnsweredRight(binding[k])
    /\ step = "error" => \E k \in Bindings : binding[k].asked # <<>> /\ binding[k].asked[1] > 1

\* table_iterator.c:831 says "decide which (GETNEXT) requests are not yet
\* filled", of each of them: that one variable is at the end of the table
\* keeps no other from its own next instance.
EndsApart == step = "done" => \A k \in Bindings : AnsweredRight(binding[k])

=============================================================================

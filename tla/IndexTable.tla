----------------------------- MODULE IndexTable -----------------------------
(***************************************************************************)
(* The index window (mibBrowser/indexes.cpp): a QTableWidget filled from   *)
(* the lines of an snmpwalk, transposed and read back as OIDs.             *)
(*                                                                         *)
(* An instance of the walked table is <<column, index>>: the sub-identifier*)
(* of the column and the index of the row.  The walk gives its lines in    *)
(* MIB order, column after column.  A cell holds the instance whose value  *)
(* it shows (the tool tip is that instance), <<0, 0>> for the text "Not    *)
(* available", or <<>> for no item.  Rows and columns count from 1.       *)
(***************************************************************************)
EXTENDS Naturals, Sequences, FiniteSetsExt, SequencesExt, Subsequence

CONSTANTS Headings,     \* sub-identifiers of the columns, in tree order
          Rows,         \* how many indices the agent's table may have
          Awkward,      \* instances whose value text holds the separator "; "
          MaxRequests   \* bound on the walks asked for

ASSUME IndexTableAssumption ==
    /\ Headings \in Seq(Nat \ {0}) /\ Headings # <<>>
    /\ Rows \in Nat /\ MaxRequests \in Nat

NotAvailable == <<0, 0>>
NoItem == <<>>

Indices == 1 .. Rows
Instances == ToSet(Headings) \X Indices

VARIABLES window,       \* "up", or why it was aborted
          vertical,     \* verticalHeaders; as many as the table has rows
          horizontal,   \* horizontalHeaders; as many as it has columns
          cell,         \* the items of the table
          pending,      \* walks asked for whose result is still to come
          asked,        \* number of walks asked for
          clipboard,    \* what the last Copy OID gave
          history       \* see IndexInit

indexVars ==
    <<window, vertical, horizontal, cell, pending, asked, clipboard, history>>

Alive == window = "up"
Positions(v, h) == (1 .. Len(v)) \X (1 .. Len(h))
Grid == Positions(vertical, horizontal)
Shown == {cell[p] : p \in Grid} \cap Instances

\* history.lines: the lines of the last result that was shown.
\* history.overlapped: two walks were outstanding at the same time.
\* history.turned: the shown table is transposed.
IndexInit ==
    /\ window = "up"
    /\ vertical = <<>>
    /\ horizontal = <<>>
    /\ cell = [p \in {} |-> NoItem]
    /\ pending = 0
    /\ asked = 0
    /\ clipboard = NoItem
    /\ history = [lines |-> {}, overlapped |-> FALSE, turned |-> FALSE]

-----------------------------------------------------------------------------
\* Mutant: the window is opened with what it showed before.
AskUncleared ==
    /\ Alive
    /\ asked < MaxRequests
    /\ asked' = asked + 1
    /\ pending' = pending + 1
    /\ history' = [history EXCEPT !.overlapped = @ \/ pending > 0, !.lines = {}]
    /\ UNCHANGED <<window, vertical, horizontal, cell, clipboard>>

\* Form::on_indexesButton_clicked: deleteInfoFromTable clears the items, not
\* the dimensions, and a walk is started.
Ask ==
    /\ Alive
    /\ asked < MaxRequests
    /\ asked' = asked + 1
    /\ pending' = pending + 1
    /\ cell' = [p \in Grid |-> NoItem]
    /\ history' = [history EXCEPT !.overlapped = @ \/ pending > 0, !.lines = {}]
    /\ UNCHANGED <<window, vertical, horizontal, clipboard>>

\* The walk gave no line: the table is not touched.
NoTable ==
    /\ Alive
    /\ pending > 0
    /\ pending' = pending - 1
    /\ UNCHANGED <<window, vertical, horizontal, cell, asked, clipboard, history>>

-----------------------------------------------------------------------------
(* Indexes::getTable.                                                      *)

\* The rows are the indices of the column the first line belongs to.
RowsOf(lines) ==
    LET first == Min({x[1] : x \in lines})
    IN  Chosen([r \in Indices |-> r], {r \in Indices : <<first, r>> \in lines})

\* setItem(row, nameColumn.toInt() - 1, item): the number of the column is its
\* sub-identifier.
ColumnNumber(c) == c

\* QTableWidget keeps its items in one list, row after row (external).
ListPosition(r, k) == (r - 1) * Len(Headings) + k

\* Items that setItem puts at p: those of an earlier row come first.
WrittenTo(p, rows, lines) ==
    {w \in (1 .. Len(rows)) \X ToSet(Headings) :
        /\ <<w[2], rows[w[1]]>> \in lines
        /\ ListPosition(w[1], ColumnNumber(w[2])) = ListPosition(p[1], p[2])}

\* Resizing keeps the items of the cells that remain; what has no item in the
\* end says "Not available".
Filled(rows, lines) ==
    [p \in Positions(rows, Headings) |->
        LET writers == WrittenTo(p, rows, lines)
            last == CHOOSE w \in writers : \A u \in writers : u[1] <= w[1]
        IN  IF writers # {} THEN <<last[2], rows[last[1]]>>
            ELSE IF p \in Grid /\ cell[p] # NoItem THEN cell[p]
            ELSE NotAvailable]

\* A value that holds the separator is cut in two, and the second half has no
\* " = ".
Unreadable(rows, lines) ==
    \E x \in lines \cap Awkward : x[2] \in ToSet(rows)

GetTable ==
    /\ Alive
    /\ pending > 0
    /\ pending' = pending - 1
    /\ \E lines \in (SUBSET Instances) \ {{}} :
         LET rows == RowsOf(lines) IN
         IF Unreadable(rows, lines)
         THEN /\ window' = "list index out of range"
              /\ UNCHANGED <<vertical, horizontal, cell, history>>
         ELSE /\ vertical' = rows
              /\ horizontal' = Headings
              /\ cell' = Filled(rows, lines)
              /\ history' = [history EXCEPT !.lines = lines, !.turned = FALSE]
              /\ UNCHANGED window
    /\ UNCHANGED <<asked, clipboard>>

-----------------------------------------------------------------------------
\* on_trans_clicked, through a second table; the headings change places.
Transpose ==
    /\ Alive
    /\ \A p \in Grid : cell[p] # NoItem
    /\ cell' = [p \in Positions(horizontal, vertical) |-> cell[<<p[2], p[1]>>]]
    /\ vertical' = horizontal
    /\ horizontal' = vertical
    /\ history' = [history EXCEPT !.turned = ~@]
    /\ UNCHANGED <<window, pending, asked, clipboard>>

\* ... which reads every item, also of a table that was cleared.
TransposeNull ==
    /\ Alive
    /\ \E p \in Grid : cell[p] = NoItem
    /\ window' = "null item"
    /\ UNCHANGED <<vertical, horizontal, cell, pending, asked, clipboard, history>>

\* on_copyOid_clicked: the OID of the table, ".1." and the tool tip of the
\* current cell (a cell that is not available has none), or the empty text
\* without a current item.
CopyOid ==
    /\ Alive
    /\ \/ clipboard' = NoItem
       \/ \E p \in Grid :
            /\ cell[p] # NoItem
            /\ clipboard' = cell[p]
    /\ UNCHANGED <<window, vertical, horizontal, cell, pending, asked, history>>

IndexNext == Ask \/ NoTable \/ GetTable \/ Transpose \/ TransposeNull \/ CopyOid

IndexSpec == IndexInit /\ [][IndexNext]_indexVars

-----------------------------------------------------------------------------
(* Properties.                                                             *)

Under(x, p) ==
    IF history.turned THEN x = <<vertical[p[1]], horizontal[p[2]]>>
    ELSE x = <<horizontal[p[2]], vertical[p[1]]>>

\* indexes.cpp:19 promises to show the table of a walk.  After any number of
\* walks and transpositions every value stands under the headings of its own
\* column and index, no value of the last walk is missing from the rows shown,
\* and none of an earlier walk is left among them; Transpose finds an item in
\* every cell, so that it can only fail between the click on Indexes and the
\* table that answers it.
ShowsTheLastWalk ==
    /\ window = "null item" => history.lines = {}
    /\ \/ history.overlapped
       \/ /\ \A p \in Grid : cell[p] \in Instances => Under(cell[p], p)
          /\ history.lines # {} =>
               Shown = {x \in history.lines :
                   x[2] \in ToSet(IF history.turned THEN horizontal ELSE vertical)}

=============================================================================

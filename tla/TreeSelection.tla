--------------------------- MODULE TreeSelection ---------------------------
(***************************************************************************)
(* The selected MIB object in the window (mibBrowser/form.cpp): the        *)
(* current item of the tree, the item described in the panel, the OID      *)
(* field, the Indexes button and the search field, and what a request asks *)
(* for.                                                                    *)
(*                                                                         *)
(* The panel follows a click (signal itemClicked) and the search, but not  *)
(* the arrow keys, which move the current item alone.  Requests read the   *)
(* current item and the OID field.  The address field is filled in and the *)
(* buttons are enabled, see Browser for those.                             *)
(***************************************************************************)
EXTENDS Naturals, Sequences, SequencesExt

CONSTANTS Items,        \* items of the tree
          Children,     \* the children of an item, in tree order
          Tables,       \* not-accessible items with "Table" in their name
          Queries,      \* texts of the search field, the empty one among them
          Matching,     \* items whose name contains a text, in tree order
          Exact,        \* items whose name, OID or full name is a text, in tree order
          Typed,        \* an OID that is no item's, typed by the user
          None          \* no item

ASSUME TreeSelectionAssumption ==
    /\ Children \in [Items -> Seq(Items)] /\ Tables \subseteq Items
    /\ {Matching, Exact} \subseteq [Queries -> Seq(Items)]
    /\ "" \in Queries /\ Matching[""] = <<>> /\ Exact[""] = <<>>
    /\ None \notin Items /\ Typed \notin Items

VARIABLES program,      \* "up", or "no child" when aborted
          current,      \* mibTree->currentItem()
          described,    \* item shown in the panel
          oid,          \* the OID field: the item whose OID it shows, or Typed
          indexes,      \* the Indexes button is visible
          request,      \* the last request: its type, and what it asks for
          query,        \* the search field
          search        \* searchText, searchCount, searchList; found: see below

selectionVars == <<program, current, described, oid, indexes, request, query, search>>

Up == program = "up"

\* The empty text is searched for as " ", which is part of no name; searchText
\* is no query before the first search.  search.found: the matches selected
\* since searchText was set.
SelectionInit ==
    /\ program = "up"
    /\ current = None /\ described = None /\ oid = None
    /\ indexes = FALSE
    /\ request = [type |-> "none", for |-> None]
    /\ query = ""
    /\ search = [text |-> None, count |-> 0, list |-> <<>>, found |-> {}]

-----------------------------------------------------------------------------
ItemInfo(item) ==
    /\ described' = item
    /\ oid' = item
    /\ indexes' = (item \in Tables)

Selected(item) == current' = item /\ ItemInfo(item)

Click(item) ==
    /\ Up
    /\ Selected(item)
    /\ UNCHANGED <<program, request, query, search>>

\* An arrow key: currentItemChanged is connected to nothing.
Key(item) ==
    /\ Up
    /\ current # None
    /\ current' = item
    /\ UNCHANGED <<program, described, oid, indexes, request, query, search>>

TypeOid ==
    /\ Up
    /\ oid' = Typed
    /\ UNCHANGED <<program, current, described, indexes, request, query, search>>

\* The text of the search field changes: searchTextChanged walks the tree and
\* selects every item that is the text, so that the last one stays selected.
SearchTextChanged(q) ==
    /\ Up
    /\ q # query
    /\ query' = q
    /\ IF Exact[q] # <<>> THEN Selected(Last(Exact[q]))
       ELSE UNCHANGED <<current, described, oid, indexes>>
    /\ UNCHANGED <<program, request, search>>

\* Mutant: a new text goes on counting.
NextSearchUnreset(q) ==
    IF search.text # q
    THEN [text |-> q, count |-> search.count, list |-> Matching[q], found |-> {}]
    ELSE [search EXCEPT !.count = @ + 1]

NextSearch(q) ==
    IF search.text # q
    THEN [text |-> q, count |-> 0, list |-> Matching[q], found |-> {}]
    ELSE [search EXCEPT !.count = @ + 1]

\* Return in the search field.  The counter is not bounded by the code; here
\* it stops when it is past the list.
SearchReturn ==
    /\ Up
    /\ search.text = query => search.count <= Len(search.list)
    /\ LET s == NextSearch(query) IN
       IF s.count < Len(s.list)
       THEN /\ Selected(s.list[s.count + 1])
            /\ search' = [s EXCEPT !.found = @ \cup {s.list[s.count + 1]}]
       ELSE /\ search' = s
            /\ UNCHANGED <<current, described, oid, indexes>>
    /\ UNCHANGED <<program, request, query>>

-----------------------------------------------------------------------------
Asks(type, for) ==
    /\ request' = [type |-> type, for |-> for]
    /\ UNCHANGED <<program, current, described, oid, indexes, query, search>>

\* The item is a column: its parent's parent is a table.
Column(item) ==
    \E t \in Tables : \E e \in ToSet(Children[t]) : item \in ToSet(Children[e])

\* Mutant: the OID is taken from the current item, not from the field.
ClickGetCurrent ==
    /\ Up
    /\ current # None
    /\ IF Column(current) THEN Asks("WalkColumn", current)
       ELSE Asks("GetScalar", current)

\* on_requestGet_clicked: a column is walked, another item is asked for with
\* ".0", a text that is not the OID of the current item as it is.
ClickGet ==
    /\ Up
    /\ current # None
    /\ IF oid # current THEN Asks("Get", oid)
       ELSE IF Column(current) THEN Asks("WalkColumn", oid)
       ELSE Asks("GetScalar", oid)

\* on_requestGetNext_clicked adds ".0" to any text.
ClickGetNext ==
    /\ Up
    /\ Asks("GetNext", oid)

\* on_indexesButton_clicked reads the headings off the first child.
ClickIndexes ==
    /\ Up
    /\ indexes
    /\ Children[current] # <<>>
    /\ Asks("WalkTable", current)

\* ... of the current item, whatever it is.
ClickIndexesNoChild ==
    /\ Up
    /\ indexes
    /\ Children[current] = <<>>
    /\ program' = "no child"
    /\ UNCHANGED <<current, described, oid, indexes, request, query, search>>

SelectionNext ==
    \/ \E item \in Items : Click(item) \/ Key(item)
    \/ \E q \in Queries : SearchTextChanged(q)
    \/ SearchReturn \/ TypeOid
    \/ ClickGet \/ ClickGetNext \/ ClickIndexes \/ ClickIndexesNoChild

SelectionSpec == SelectionInit /\ [][SelectionNext]_selectionVars

-----------------------------------------------------------------------------
(* Properties.                                                             *)

\* A request is for the object the panel describes.  A walk or a GET of an
\* instance is never for another item unless the OID field was edited, an item's
\* OID without an instance is only asked for when the arrow keys have moved on,
\* and until then the Indexes button walks the table and does not abort, if every
\* item that passes for a table has an entry.
AsksForTheDescribed ==
    [][/\ request' # request /\ oid # Typed /\ request'.type # "WalkTable" =>
            /\ request'.for = described
            /\ request'.type = "Get" => current # described
       /\ current = described /\ Up =>
            /\ (\A t \in Tables : Children[t] # <<>>) => program' = "up"
            /\ request'.type = "WalkTable" /\ request' # request
                 => request'.for = described /\ described \in Tables]_selectionVars

\* Going on with Return visits every match of the text, whatever is clicked,
\* typed or asked for in between: no match is skipped when texts alternate.
EveryMatchFound ==
    search.count + 1 >= Len(search.list) => search.found = ToSet(search.list)

=============================================================================

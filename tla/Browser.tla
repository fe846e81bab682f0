------------------------------- MODULE Browser -------------------------------
(***************************************************************************)
(* The browser window (mibBrowser/form.cpp) and the request threads it     *)
(* starts (mibBrowser/snmp_request.cpp, SnmpRequest::run).                 *)
(*                                                                         *)
(* Every slot of Form runs in the GUI thread, one at a time.  A request is *)
(* a QThread object that lives in the GUI thread: its signals sendResult   *)
(* and finished are emitted by its run and queued to the GUI thread, where *)
(* they reach Form::getRequestResult and QObject::deleteLater.  `queue' is *)
(* that event queue.  What a run does in between is SyncRequest and        *)
(* SnmpWalk; here it ends with a text, with the empty text or with an      *)
(* exception nobody catches.                                               *)
(***************************************************************************)
EXTENDS Naturals, Sequences, FiniteSets, SequencesExt, Subsequence

CONSTANTS Requests,     \* SnmpRequest objects that may exist at a time
          Tables,       \* table items of the MIB tree
          Kinds,        \* kinds of request the user makes
          NoTable       \* nothing displayed in the index window

\* Get, GetNext: one PDU.  Column: snmpwalk of a table column.  Index: snmpwalk
\* of a table for the index window (WalkNoTranslate).
AllKinds == {"Get", "GetNext", "Column", "Index"}

ASSUME BrowserAssumption ==
    /\ IsFiniteSet(Requests) /\ Kinds \subseteq AllKinds
    /\ NoTable \notin Tables

VARIABLES program,      \* "up", or why it was aborted
          selected,     \* mibTree->currentItem() is not null
          enabled,      \* requestGet and requestGetNext are enabled
          restart,      \* request whose second start() is next, in a sequence
          tableOid,     \* Form::tableOid: table of the last index click
          work,         \* the requests
          queue,        \* the GUI thread's event queue
          shown,        \* table shown in the index window
          history       \* see WindowInit

windowVars ==
    <<program, selected, enabled, restart, tableOid, work, queue, shown, history>>

Up == program = "up"
GuiIdle == Up /\ restart = <<>>

\* The state of a request is none (not created, or deleted), running (in run()),
\* emitted (sendResult was emitted) or ended (run() returned).  The program is up
\* or was aborted by: no current item, exception in run, destroyed while running,
\* row of an empty table.
Result(r, text) == [type |-> "result", req |-> r, text |-> text]
Delete(r) == [type |-> "delete", req |-> r, text |-> ""]

Running(r) == work[r].state \in {"running", "emitted"}

\* The user waits for r: it runs, or its result is among events.
Awaited(r, events) ==
    \/ work[r].state = "running"
    \/ \E e \in ToSet(events) : e.type = "result" /\ e.req = r

Outstanding(r) == Awaited(r, queue)

\* A name for a new object.
Fresh(r) == work[r].state = "none" /\ \A e \in ToSet(queue) : e.req # r

WalkKind(k) == k \in {"Column", "Index"}

\* history.early: a result that is not the last word of a GET, that of an index
\* request or of a column walk that ran twice, enabled the buttons under a GET;
\* history.overlapped: the user asked for two index tables at once.
WindowInit ==
    /\ program = "up"
    /\ selected = FALSE
    /\ enabled = TRUE
    /\ restart = <<>>
    /\ tableOid = NoTable
    /\ work = [r \in Requests |->
                 [kind |-> "Get", table |-> NoTable, state |-> "none", runs |-> 0]]
    /\ queue = <<>>
    /\ shown = NoTable
    /\ history = [early |-> FALSE, overlapped |-> FALSE]

-----------------------------------------------------------------------------
(* Slots of the GUI thread.                                                *)

Started(r, kind, table) ==
    work' = [work EXCEPT ![r] = [kind |-> kind, table |-> table,
                                 state |-> "running", runs |-> 1]]

\* The user selects an item of the tree.
Select ==
    /\ GuiIdle
    /\ ~selected
    /\ selected' = TRUE
    /\ UNCHANGED <<program, enabled, restart, tableOid, work, queue, shown, history>>

\* on_requestGet_clicked without a current item dereferences null.
ClickGetNoItem ==
    /\ GuiIdle /\ enabled /\ ~selected
    /\ "Get" \in Kinds
    /\ program' = "no current item"
    /\ UNCHANGED <<selected, enabled, restart, tableOid, work, queue, shown, history>>

\* Mutant: the buttons stay enabled during the request.
ClickGetEnabled(r, kind) ==
    /\ GuiIdle /\ enabled
    /\ Fresh(r)
    /\ kind \in Kinds \cap {"Get", "GetNext"}
    /\ kind = "Get" => selected
    /\ Started(r, kind, NoTable)
    /\ UNCHANGED <<program, selected, enabled, restart, tableOid, queue, shown,
                   history>>

\* on_requestGet_clicked for a plain object; on_requestGetNext_clicked does not
\* look at the tree.
ClickGet(r, kind) ==
    /\ GuiIdle /\ enabled
    /\ Fresh(r)
    /\ kind \in Kinds \cap {"Get", "GetNext"}
    /\ kind = "Get" => selected
    /\ enabled' = FALSE
    /\ Started(r, kind, NoTable)
    /\ UNCHANGED <<program, selected, restart, tableOid, queue, shown, history>>

\* on_requestGet_clicked for a column of a table: start() in the branch ...
ClickColumn(r) ==
    /\ GuiIdle /\ enabled /\ selected
    /\ Fresh(r)
    /\ "Column" \in Kinds
    /\ enabled' = FALSE
    /\ Started(r, "Column", NoTable)
    /\ restart' = <<r>>
    /\ UNCHANGED <<program, selected, tableOid, queue, shown, history>>

\* ... and start() once more at the end of the slot: no effect on a running
\* thread, a second run if the first one is over.
SecondStart ==
    /\ Up /\ restart # <<>>
    /\ restart' = <<>>
    /\ LET r == Head(restart) IN
       work' = IF Running(r) THEN work
               ELSE [work EXCEPT ![r].state = "running", ![r].runs = @ + 1]
    /\ UNCHANGED <<program, selected, enabled, tableOid, queue, shown, history>>

\* Mutant: the former table stays on show.
ClickIndexesUncleared(r, t) ==
    /\ GuiIdle /\ selected
    /\ Fresh(r)
    /\ "Index" \in Kinds
    /\ tableOid' = t
    /\ Started(r, "Index", t)
    /\ history' = [history EXCEPT !.overlapped =
                     @ \/ \E q \in Requests : work[q].kind = "Index" /\ Outstanding(q)]
    /\ UNCHANGED <<program, selected, enabled, restart, queue, shown>>

\* on_indexesButton_clicked neither looks at the buttons nor disables them; the
\* table and its headings are members that the last click overwrites.
ClickIndexes(r, t) ==
    /\ GuiIdle /\ selected
    /\ Fresh(r)
    /\ "Index" \in Kinds
    /\ tableOid' = t
    /\ shown' = NoTable
    /\ Started(r, "Index", t)
    /\ history' = [history EXCEPT !.overlapped =
                     @ \/ \E q \in Requests : work[q].kind = "Index" /\ Outstanding(q)]
    /\ UNCHANGED <<program, selected, enabled, restart, queue>>

-----------------------------------------------------------------------------
(* Form::getRequestResult and deleteLater, from the event queue.           *)

EnableButtons(r) ==
    /\ enabled' = TRUE
    /\ history' = [history EXCEPT !.early =
                     @ \/ /\ work[r].kind = "Index" \/ work[r].runs = 2
                          /\ \E q \in Requests :
                               work[q].kind # "Index" /\ Awaited(q, Tail(queue))]

\* Mutant: an empty walk leaves the buttons as they are.
ShowTextUnlessEmpty(e) ==
    /\ work[e.req].kind # "Index"
    /\ IF e.text = "" THEN UNCHANGED <<enabled, history>> ELSE EnableButtons(e.req)
    /\ UNCHANGED <<program, shown>>

\* out is true: the text is shown and the buttons come back.
ShowText(e) ==
    /\ work[e.req].kind # "Index"
    /\ EnableButtons(e.req)
    /\ UNCHANGED <<program, shown>>

\* An empty index walk returns early and does not touch the buttons.
NoSuchObject(e) ==
    /\ work[e.req].kind = "Index"
    /\ e.text = ""
    /\ UNCHANGED <<program, enabled, shown, history>>

\* Indexes::getTable keeps the lines under the current tableOid and reads the
\* first of them: with another table's lines there is none.
FillTable(e) ==
    /\ work[e.req].kind = "Index"
    /\ e.text # ""
    /\ IF work[e.req].table = tableOid
       THEN shown' = tableOid /\ EnableButtons(e.req) /\ UNCHANGED program
       ELSE program' = "row of an empty table" /\ UNCHANGED <<enabled, shown, history>>

GetRequestResult ==
    /\ GuiIdle /\ queue # <<>>
    /\ Head(queue).type = "result"
    /\ queue' = Tail(queue)
    /\ ShowText(Head(queue)) \/ NoSuchObject(Head(queue)) \/ FillTable(Head(queue))
    /\ UNCHANGED <<selected, restart, tableOid, work>>

\* The events that are left when those equal to one are dropped.
Without(events, event) == Chosen(events, {i \in DOMAIN events : events[i] # event})

\* ~QThread aborts the program if the thread runs; destroying the object also
\* drops the events queued to it.
DeleteLater ==
    /\ GuiIdle /\ queue # <<>>
    /\ Head(queue).type = "delete"
    /\ LET r == Head(queue).req IN
       /\ queue' = Without(Tail(queue), Delete(r))
       /\ IF Running(r)
          THEN program' = "destroyed while running" /\ UNCHANGED work
          ELSE work' = [work EXCEPT ![r].state = "none"] /\ UNCHANGED program
    /\ UNCHANGED <<selected, enabled, restart, tableOid, shown, history>>

-----------------------------------------------------------------------------
(* SnmpRequest::run in its own thread.                                     *)

\* Mutant: the object is deleted on its result, not at the end of its run.
EmitResultAndDelete(r) ==
    /\ Up
    /\ work[r].state = "running"
    /\ work' = [work EXCEPT ![r].state = "emitted"]
    /\ queue' = queue \o <<Result(r, "text"), Delete(r)>>
    /\ UNCHANGED <<program, selected, enabled, restart, tableOid, shown, history>>

\* A GET always has a text (a value or an error message), a walk may have none.
EmitResult(r) ==
    /\ Up
    /\ work[r].state = "running"
    /\ work' = [work EXCEPT ![r].state = "emitted"]
    /\ \E text \in IF WalkKind(work[r].kind) THEN {"", "text"} ELSE {"text"} :
         queue' = Append(queue, Result(r, text))
    /\ UNCHANGED <<program, selected, enabled, restart, tableOid, shown, history>>

\* snmpWalk throws on a timeout or an error and run() does not catch.
Throw(r) ==
    /\ Up
    /\ work[r].state = "running"
    /\ WalkKind(work[r].kind)
    /\ program' = "exception in run"
    /\ UNCHANGED <<selected, enabled, restart, tableOid, work, queue, shown, history>>

\* Mutant: nothing is connected to finished.
EndRunUnconnected(r) ==
    /\ Up
    /\ work[r].state = "emitted"
    /\ work' = [work EXCEPT ![r].state = "ended"]
    /\ UNCHANGED <<program, selected, enabled, restart, tableOid, queue, shown,
                   history>>

\* run() returns: finished is emitted.
EndRun(r) ==
    /\ Up
    /\ work[r].state = "emitted"
    /\ work' = [work EXCEPT ![r].state = "ended"]
    /\ queue' = Append(queue, Delete(r))
    /\ UNCHANGED <<program, selected, enabled, restart, tableOid, shown, history>>

WindowNext ==
    \/ Select \/ ClickGetNoItem \/ SecondStart \/ GetRequestResult \/ DeleteLater
    \/ \E r \in Requests :
         \/ \E kind \in {"Get", "GetNext"} : ClickGet(r, kind)
         \/ ClickColumn(r)
         \/ \E t \in Tables : ClickIndexes(r, t)
         \/ EmitResult(r) \/ Throw(r) \/ EndRun(r)

\* The GUI thread runs its event loop and every run ends (SyncRequest shows it
\* for a call; a walk is a finite number of calls, see SnmpWalk for the one
\* that is not).  Nobody has to click.
WindowFairness ==
    /\ WF_windowVars(SecondStart)
    /\ WF_windowVars(GetRequestResult \/ DeleteLater)
    /\ \A r \in Requests :
         WF_windowVars(EmitResult(r) \/ Throw(r)) /\ WF_windowVars(EndRun(r))

WindowSpec == WindowInit /\ [][WindowNext]_windowVars /\ WindowFairness

-----------------------------------------------------------------------------
(* Properties.                                                             *)

Gets == {r \in Requests : work[r].kind # "Index" /\ Outstanding(r)}

\* The buttons are disabled so that one GET, GETNEXT or column walk is made at
\* a time, over any number of requests.  That holds unless a column walk that
\* ran twice or an index request, which is not tied to the buttons, enabled
\* them under a request that goes on.
OneGetAtATime ==
    Cardinality(Gets) <= 1 \/ history.early

\* The index window never shows the lines of one table under the heading of
\* another: mixing them up is only possible when two index requests overlap,
\* and then the program ends at the row of an empty table.
TableMatchesHeading ==
    /\ shown # NoTable => shown = tableOid
    /\ program = "row of an empty table" => history.overlapped

\* A request object is destroyed under its running thread only when it is a
\* column walk, the one kind that is started twice.
DestroyedOnlyIfRestarted ==
    program = "destroyed while running" =>
        \E r \in Requests : Running(r) /\ work[r].runs = 2 /\ work[r].kind = "Column"

\* After every click the buttons come back (or the program is gone): no result,
\* however empty, leaves the window without its buttons.
ButtonsComeBack == ~enabled ~> (enabled \/ ~Up)

\* A request object that ran is freed in the end.
RequestsFreed ==
    \A r \in Requests :
        work[r].state = "running" ~> (work[r].state = "none" \/ ~Up)

==============================================================================

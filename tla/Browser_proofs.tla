--------------------------- MODULE Browser_proofs ---------------------------
(***************************************************************************)
(* Proofs about the browser window and its request threads, for any number *)
(* of requests and tables.                                                 *)
(***************************************************************************)
EXTENDS Browser, Induction

\* Without(s, event) is what remains of s when event is taken out: `place' gives
\* the place in s of each of its elements, in the same order.
IsWithout(out, s, len, event) ==
    \E place \in [1 .. Len(out) -> 1 .. len] :
        /\ \A a, b \in 1 .. Len(out) : a < b => place[a] < place[b]
        /\ \A a \in 1 .. Len(out) : out[a] = s[place[a]] /\ out[a] # event
        /\ \A j \in 1 .. len : s[j] # event => \E a \in 1 .. Len(out) : place[a] = j

\* The operator Without is the subsequence it is meant to be.
LEMMA WithoutIsWithout ==
    ASSUME NEW S, NEW s \in Seq(S), NEW event
    PROVE  /\ Without(s, event) \in Seq(S)
           /\ IsWithout(Without(s, event), s, Len(s), event)
<1> DEFINE places == {i \in DOMAIN s : s[i] # event}
           out == Chosen(s, places)
<1>1. Without(s, event) = out
  BY DEF Without
<1>2. \A j \in 1 .. Len(s) : j \in places <=> s[j] # event
  OBVIOUS
<1> HIDE DEF places
<1>3. out \in Seq(S) /\ IsChosen(out, s, Len(s), places)
  BY ChosenIs
<1> HIDE DEF out
<1>4. IsWithout(out, s, Len(s), event)
  <2> DEFINE len == Len(s)
             m == Len(out)
  <2>1. PICK place \in [1 .. m -> 1 .. len] :
             /\ \A a, b \in 1 .. m : a < b => place[a] < place[b]
             /\ \A a \in 1 .. m : out[a] = s[place[a]] /\ place[a] \in places
             /\ \A j \in 1 .. len : j \in places => \E a \in 1 .. m : place[a] = j
    BY <1>3 DEF IsChosen
  <2>2. \A a \in 1 .. m : out[a] = s[place[a]] /\ out[a] # event
    <3> HIDE DEF m, len
    <3>1. \A a \in 1 .. m : place[a] \in 1 .. len
      BY <2>1
    <3> QED  BY <1>2, <2>1, <3>1 DEF len
  <2>3. \A j \in 1 .. len : s[j] # event => \E a \in 1 .. m : place[a] = j
    BY <1>2, <2>1
  <2> SUFFICES \E p \in [1 .. m -> 1 .. len] :
                   /\ \A a, b \in 1 .. m : a < b => p[a] < p[b]
                   /\ \A a \in 1 .. m : out[a] = s[p[a]] /\ out[a] # event
                   /\ \A j \in 1 .. len : s[j] # event => \E a \in 1 .. m : p[a] = j
    BY DEF IsWithout
  <2> HIDE DEF m, len
  <2> QED  BY <2>1, <2>2, <2>3
<1> QED  BY <1>1, <1>3, <1>4

-----------------------------------------------------------------------------
(* The inductive invariant.                                                *)

Event == {e \in [type : {"result", "delete"}, req : Requests, text : {"", "text"}] :
              e.type = "delete" => e.text = ""}
Thread == [kind : AllKinds, table : Tables \cup {NoTable},
           state : {"none", "running", "emitted", "ended"}, runs : 0 .. 2]

WindowTypeOK ==
    /\ enabled \in BOOLEAN
    /\ restart \in {<<>>} \cup {<<r>> : r \in Requests}
    /\ work \in [Requests -> Thread]
    /\ queue \in Seq(Event)
    /\ tableOid \in Tables \cup {NoTable}
    /\ shown \in Tables \cup {NoTable}
    /\ history \in [early : BOOLEAN, overlapped : BOOLEAN]

IsResult(event, r) == event.type = "result" /\ event.req = r

\* A request that was not started has no events, one that was started once has
\* them in order: one result when it ran, its deletion when it is over.
InOrder(r, thread, events) ==
    /\ thread.runs = 0 => /\ thread.state = "none"
                          /\ \A i \in 1 .. Len(events) : events[i].req # r
    /\ thread.runs = 1 =>
         /\ thread.state = "running" => \A i \in 1 .. Len(events) : events[i].req # r
         /\ \A i, j \in 1 .. Len(events) :
              IsResult(events[i], r) /\ IsResult(events[j], r) => i = j
         /\ \A i \in 1 .. Len(events) : events[i] = Delete(r) => thread.state = "ended"
    /\ thread.runs = 2 => thread.kind = "Column"

RunsInOrder == \A r \in Requests : InOrder(r, work[r], queue)

\* Between the two starts of a column walk its result waits for the window.
BetweenStarts ==
    restart # <<>> =>
        LET r == Head(restart) IN
        /\ work[r].kind = "Column" /\ work[r].runs = 1 /\ work[r].state # "none"
        /\ Outstanding(r)

\* The buttons are disabled under a request they started, and under one only.
ButtonsGuard ==
    ~history.early => /\ enabled => Gets = {}
                      /\ \A r, q \in Gets : r = q

\* The index request that goes on is that of the last click.
LastClick ==
    /\ shown # NoTable => shown = tableOid
    /\ ~history.overlapped =>
         \A r \in Requests :
             work[r].kind = "Index" /\ Outstanding(r) => work[r].table = tableOid

WindowInv ==
    /\ WindowTypeOK
    /\ RunsInOrder
    /\ BetweenStarts
    /\ ButtonsGuard
    /\ LastClick
    /\ program = "row of an empty table" => history.overlapped
    /\ DestroyedOnlyIfRestarted

-----------------------------------------------------------------------------
(* Lemmas about the queue.                                                 *)

HasResult(events, r) ==
    \E i \in 1 .. Len(events) : IsResult(events[i], r)

\* The second start that is next is that of a request.
LEMMA HeadOfRestart ==
    ASSUME WindowTypeOK, restart # <<>>
    PROVE  Head(restart) \in Requests
<1>1. PICK r \in Requests : restart = <<r>>
  BY DEF WindowTypeOK
<1> QED  BY <1>1

\* The events of an object are events, of their type and of that object.
LEMMA Events ==
    ASSUME NEW r \in Requests
    PROVE  /\ Delete(r) \in Event /\ Delete(r).type = "delete" /\ Delete(r).req = r
           /\ \A text \in {"", "text"} :
                /\ Result(r, text) \in Event /\ Result(r, text).type = "result"
                /\ Result(r, text).req = r
BY DEF Delete, Result, Event

\* A step of one thread: nothing but its state, and nothing of the others.
LEMMA ThreadStep ==
    ASSUME NEW r \in Requests, work \in [Requests -> Thread],
           NEW s \in {"none", "running", "emitted", "ended"},
           work' = [work EXCEPT ![r].state = s]
    PROVE  /\ work' \in [Requests -> Thread]
           /\ work'[r].state = s /\ work'[r].kind = work[r].kind
           /\ work'[r].runs = work[r].runs /\ work'[r].table = work[r].table
           /\ \A q \in Requests : q # r => work'[q] = work[q]
<1>1. work[r] \in Thread
  OBVIOUS
<1>2. work'[r] = [kind |-> work[r].kind, table |-> work[r].table,
                  state |-> s, runs |-> work[r].runs]
  BY <1>1 DEF Thread
<1>3. work'[r] \in Thread
  BY <1>1, <1>2 DEF Thread
<1>4. work' = [q \in Requests |-> work'[q]] /\ \A q \in Requests : q # r => work'[q] = work[q]
  OBVIOUS
<1>5. work' \in [Requests -> Thread]
  BY <1>3, <1>4
<1> QED  BY <1>2, <1>4, <1>5

\* A request is waited for when it runs or its result is at some place of the queue.
LEMMA OutstandingIs ==
    ASSUME queue \in Seq(Event), NEW r \in Requests
    PROVE  Outstanding(r) <=> work[r].state = "running" \/ HasResult(queue, r)
<1>1. DOMAIN queue = 1 .. Len(queue)
  OBVIOUS
<1> QED  BY <1>1 DEF Outstanding, Awaited, ToSet, HasResult, IsResult

\* The same of the state after a step.
LEMMA OutstandingThen ==
    ASSUME queue' \in Seq(Event), NEW r \in Requests
    PROVE  Outstanding(r)' <=> work'[r].state = "running" \/ HasResult(queue', r)
<1>1. DOMAIN queue' = 1 .. Len(queue')
  OBVIOUS
<1> QED  BY <1>1 DEF Outstanding, Awaited, ToSet, HasResult, IsResult

\* What is waited for among the events behind the first.
LEMMA AwaitedInTail ==
    ASSUME queue \in Seq(Event), queue # <<>>, NEW r \in Requests
    PROVE  Awaited(r, Tail(queue)) <=>
               work[r].state = "running" \/ HasResult(Tail(queue), r)
<1>1. Tail(queue) \in Seq(Event) /\ DOMAIN Tail(queue) = 1 .. Len(Tail(queue))
  OBVIOUS
<1> QED  BY <1>1 DEF Awaited, ToSet, HasResult, IsResult

\* A name for a new object has no events.
LEMMA FreshHasNoEvents ==
    ASSUME queue \in Seq(Event), NEW r \in Requests, Fresh(r)
    PROVE  /\ work[r].state = "none"
           /\ \A i \in 1 .. Len(queue) : queue[i].req # r
           /\ ~HasResult(queue, r)
<1>1. DOMAIN queue = 1 .. Len(queue)
  OBVIOUS
<1> QED  BY <1>1 DEF Fresh, ToSet, HasResult, IsResult

\* The first event of the queue, and what is behind it.
LEMMA HeadAndTail ==
    ASSUME queue \in Seq(Event), queue # <<>>
    PROVE  /\ Head(queue) \in Event /\ Head(queue) = queue[1] /\ 1 \in 1 .. Len(queue)
           /\ Tail(queue) \in Seq(Event)
           /\ \A i \in 1 .. Len(Tail(queue)) : /\ i + 1 \in 1 .. Len(queue)
                                               /\ Tail(queue)[i] = queue[i + 1]
           /\ \A r \in Requests : HasResult(Tail(queue), r) => HasResult(queue, r)
<1>1. /\ Head(queue) \in Event /\ Head(queue) = queue[1] /\ 1 \in 1 .. Len(queue)
      /\ Tail(queue) \in Seq(Event)
      /\ \A i \in 1 .. Len(Tail(queue)) : /\ i + 1 \in 1 .. Len(queue)
                                          /\ Tail(queue)[i] = queue[i + 1]
  OBVIOUS
<1> QED  BY <1>1 DEF HasResult

\* An event behind all others.
LEMMA AppendToQueue ==
    ASSUME queue \in Seq(Event), NEW e \in Event
    PROVE  LET q == Append(queue, e) IN
           /\ q \in Seq(Event) /\ Len(q) = Len(queue) + 1 /\ Len(queue) \in Nat
           /\ q[Len(queue) + 1] = e
           /\ \A i \in 1 .. Len(queue) : q[i] = queue[i]
           /\ \A i \in 1 .. Len(q) : i \in 1 .. Len(queue) \/ i = Len(queue) + 1
           /\ \A r \in Requests :
                HasResult(q, r) <=> HasResult(queue, r) \/ IsResult(e, r)
<1> DEFINE q == Append(queue, e)
<1>1. /\ q \in Seq(Event) /\ Len(q) = Len(queue) + 1 /\ Len(queue) \in Nat
      /\ q[Len(queue) + 1] = e
      /\ \A i \in 1 .. Len(queue) : q[i] = queue[i]
  OBVIOUS
<1> HIDE DEF q
<1>2. \A i \in 1 .. Len(q) : i \in 1 .. Len(queue) \/ i = Len(queue) + 1
  BY <1>1
<1>3. ASSUME NEW r \in Requests
      PROVE  HasResult(q, r) <=> HasResult(queue, r) \/ IsResult(e, r)
  <2>1. \A i \in 1 .. Len(queue) : i \in 1 .. Len(q)
    BY <1>1
  <2>2. Len(queue) + 1 \in 1 .. Len(q)
    BY <1>1
  <2> QED  BY <1>1, <1>2, <2>1, <2>2 DEF HasResult
<1>4. QED  BY <1>1, <1>2, <1>3 DEF q

-----------------------------------------------------------------------------
(* The invariant holds at first and is preserved by every action.          *)

\* A window that has just been opened satisfies the invariant.
LEMMA WindowInitInv == WindowInit => WindowInv
<1> SUFFICES ASSUME WindowInit  PROVE WindowInv
  OBVIOUS
<1> USE DEF WindowInit
<1>1. WindowTypeOK
  BY DEF WindowTypeOK, Thread, AllKinds, Event
<1>2. queue \in Seq(Event) /\ Len(queue) = 0 /\ 1 .. Len(queue) = {}
  OBVIOUS
<1>3. \A r \in Requests : ~Outstanding(r)
  BY <1>2, OutstandingIs DEF HasResult
<1>4. RunsInOrder
  BY <1>2 DEF RunsInOrder, InOrder
<1>5. BetweenStarts
  BY DEF BetweenStarts
<1>6. ButtonsGuard
  BY <1>3 DEF ButtonsGuard, Gets
<1>7. LastClick
  BY <1>3 DEF LastClick
<1>8. DestroyedOnlyIfRestarted
  BY DEF DestroyedOnlyIfRestarted
<1> QED  BY <1>1, <1>4, <1>5, <1>6, <1>7, <1>8 DEF WindowInv

\* A new object that is started is the only one whose place in the order changes.
LEMMA StartedInOrder ==
    ASSUME WindowInv, NEW r \in Requests, Fresh(r),
           NEW kind \in AllKinds, NEW t \in Tables \cup {NoTable},
           Started(r, kind, t), queue' = queue
    PROVE  /\ work' \in [Requests -> Thread]
           /\ work'[r] = [kind |-> kind, table |-> t, state |-> "running", runs |-> 1]
           /\ \A q \in Requests : q # r => work'[q] = work[q]
           /\ RunsInOrder'
           /\ ~Outstanding(r) /\ Outstanding(r)'
           /\ \A q \in Requests : q # r => (Outstanding(q)' <=> Outstanding(q))
<1>1. queue \in Seq(Event) /\ queue' \in Seq(Event) /\ work \in [Requests -> Thread]
  BY DEF WindowInv, WindowTypeOK
<1>2. /\ work'[r] = [kind |-> kind, table |-> t, state |-> "running", runs |-> 1]
      /\ \A q \in Requests : q # r => work'[q] = work[q]
  BY <1>1 DEF Started
<1>3. work' \in [Requests -> Thread]
  BY <1>1 DEF Started, Thread
<1>4. /\ work[r].state = "none" /\ ~HasResult(queue, r)
      /\ \A i \in 1 .. Len(queue) : queue[i].req # r
  BY <1>1, FreshHasNoEvents
<1>5. RunsInOrder'
  <2>1. RunsInOrder
    BY DEF WindowInv
  <2>2. InOrder(r, work'[r], queue)
    <3>1. work'[r].runs = 1 /\ work'[r].state = "running"
      BY <1>2
    <3>2. Delete(r).req = r
      BY Events
    <3> QED  BY <1>4, <3>1, <3>2 DEF InOrder, IsResult
  <2>3. \A q \in Requests : q # r => InOrder(q, work'[q], queue)
    BY <1>2, <2>1 DEF RunsInOrder
  <2> QED  BY <2>2, <2>3 DEF RunsInOrder
<1>6. ~Outstanding(r) /\ Outstanding(r)'
  BY <1>1, <1>2, <1>4, OutstandingIs, OutstandingThen
<1>7. \A q \in Requests : q # r => (Outstanding(q)' <=> Outstanding(q))
  BY <1>1, <1>2, OutstandingIs, OutstandingThen
<1> QED  BY <1>2, <1>3, <1>5, <1>6, <1>7

\* A request that is no index request, and its start disables the buttons.
LEMMA StartGet ==
    ASSUME WindowInv, NEW r \in Requests, Fresh(r), enabled, restart = <<>>,
           NEW kind \in AllKinds \ {"Index"}, Started(r, kind, NoTable),
           enabled' = FALSE, restart' = <<>> \/ (kind = "Column" /\ restart' = <<r>>),
           UNCHANGED <<program, tableOid, queue, shown, history>>, program = "up"
    PROVE  WindowInv'
<1>1. /\ work' \in [Requests -> Thread]
      /\ work'[r] = [kind |-> kind, table |-> NoTable, state |-> "running", runs |-> 1]
      /\ \A q \in Requests : q # r => work'[q] = work[q]
      /\ RunsInOrder'
      /\ ~Outstanding(r) /\ Outstanding(r)'
      /\ \A q \in Requests : q # r => (Outstanding(q)' <=> Outstanding(q))
  BY StartedInOrder
<1>2. WindowTypeOK'
  BY <1>1 DEF WindowInv, WindowTypeOK
<1>3. BetweenStarts'
  <2> SUFFICES ASSUME restart' # <<>>
               PROVE  /\ work'[r].kind = "Column" /\ work'[r].runs = 1
                      /\ work'[r].state # "none" /\ Outstanding(r)'
                      /\ Head(restart') = r
    BY DEF BetweenStarts
  <2> QED  BY <1>1
<1>4. ButtonsGuard'
  <2> SUFFICES ASSUME ~history.early, NEW a \in Gets', NEW b \in Gets'
               PROVE  a = b
    BY DEF ButtonsGuard
  <2>1. Gets = {}
    BY DEF WindowInv, ButtonsGuard
  <2>2. \A q \in Requests : q # r => q \notin Gets'
    BY <1>1, <2>1 DEF Gets
  <2> QED  BY <2>2 DEF Gets
<1>5. LastClick'
  BY <1>1 DEF LastClick, WindowInv
<1>6. DestroyedOnlyIfRestarted'
  BY DEF DestroyedOnlyIfRestarted
<1> QED  BY <1>1, <1>2, <1>3, <1>4, <1>5, <1>6 DEF WindowInv

\* A click on Indexes starts one run and sets the table its lines are for.
LEMMA StepClickIndexes ==
    ASSUME WindowInv, NEW r \in Requests, NEW t \in Tables, ClickIndexes(r, t)
    PROVE  WindowInv'
<1> USE DEF ClickIndexes, GuiIdle, Up
<1>1. /\ work' \in [Requests -> Thread]
      /\ work'[r] = [kind |-> "Index", table |-> t, state |-> "running", runs |-> 1]
      /\ \A q \in Requests : q # r => work'[q] = work[q]
      /\ RunsInOrder'
      /\ ~Outstanding(r) /\ Outstanding(r)'
      /\ \A q \in Requests : q # r => (Outstanding(q)' <=> Outstanding(q))
  BY StartedInOrder DEF AllKinds
<1>2. /\ history \in [early : BOOLEAN, overlapped : BOOLEAN]
      /\ history'.early = history.early
      /\ history' \in [early : BOOLEAN, overlapped : BOOLEAN]
      /\ history'.overlapped <=>
           history.overlapped
             \/ \E q \in Requests : work[q].kind = "Index" /\ Outstanding(q)
  BY DEF WindowInv, WindowTypeOK
<1>3. WindowTypeOK'
  BY <1>1, <1>2 DEF WindowInv, WindowTypeOK
<1>4. BetweenStarts'
  BY DEF BetweenStarts
<1>5. ButtonsGuard'
  <2>1. Gets' = Gets
    BY <1>1 DEF Gets
  <2> QED  BY <1>2, <2>1 DEF ButtonsGuard, WindowInv
<1>6. LastClick'
  <2> SUFFICES ASSUME ~history'.overlapped, NEW q \in Requests, work'[q].kind = "Index",
                      Outstanding(q)'
               PROVE  work'[q].table = t
    BY DEF LastClick
  <2>1. CASE q = r
    BY <1>1, <2>1
  <2>2. CASE q # r
    BY <1>1, <1>2, <2>2
  <2> QED  BY <2>1, <2>2
<1>7. DestroyedOnlyIfRestarted'
  BY DEF DestroyedOnlyIfRestarted
<1> QED  BY <1>1, <1>3, <1>4, <1>5, <1>6, <1>7 DEF WindowInv

\* The second start() of a slot is of the object the slot has just started.
LEMMA StepSecondStart ==
    ASSUME WindowInv, SecondStart
    PROVE  WindowInv'
<1>1. WindowTypeOK /\ RunsInOrder /\ BetweenStarts
  BY DEF WindowInv
<1>2. PICK r \in Requests : /\ r = Head(restart) /\ restart # <<>> /\ queue' = queue
                            /\ restart' = <<>> /\ program = "up"
  BY <1>1 DEF SecondStart, WindowTypeOK, Up
<1>3. /\ work[r].kind = "Column" /\ work[r].runs = 1 /\ work[r].state # "none"
      /\ Outstanding(r) /\ work \in [Requests -> Thread] /\ queue \in Seq(Event)
  BY <1>1, <1>2 DEF BetweenStarts, WindowTypeOK
<1>4. work' = IF Running(r) THEN work
              ELSE [work EXCEPT ![r].state = "running", ![r].runs = @ + 1]
  BY <1>2 DEF SecondStart
<1>5. \A q \in Requests : q # r => work'[q] = work[q]
  BY <1>3, <1>4
<1>6. CASE Running(r)
  <2>1. UNCHANGED <<program, enabled, tableOid, work, queue, shown, history>>
    BY <1>4, <1>6 DEF SecondStart
  <2>2. Gets' = Gets /\ \A q \in Requests : Outstanding(q)' <=> Outstanding(q)
    BY <2>1 DEF Gets, Outstanding, Awaited
  <2>3. WindowTypeOK'
    BY <1>1, <1>2, <2>1 DEF WindowTypeOK
  <2>4. RunsInOrder'
    BY <1>1, <2>1 DEF RunsInOrder
  <2>5. BetweenStarts'
    BY <1>2 DEF BetweenStarts
  <2>6. ButtonsGuard' /\ LastClick'
    BY <2>1, <2>2 DEF WindowInv, ButtonsGuard, LastClick
  <2>7. DestroyedOnlyIfRestarted'
    BY <1>2, <2>1 DEF DestroyedOnlyIfRestarted
  <2> QED  BY <1>2, <2>1, <2>3, <2>4, <2>5, <2>6, <2>7 DEF WindowInv
<1>7. CASE ~Running(r)
  <2>1. /\ work'[r].state = "running" /\ work'[r].runs = 2 /\ work'[r].kind = "Column"
        /\ work'[r] \in Thread
    <3>1. work' = [work EXCEPT ![r].state = "running", ![r].runs = @ + 1]
      BY <1>4, <1>7
    <3>2. work[r] \in Thread
      BY <1>3
    <3>3. work'[r] = [kind |-> work[r].kind, table |-> work[r].table,
                      state |-> "running", runs |-> 2]
      BY <1>3, <3>1, <3>2 DEF Thread
    <3>4. /\ work'[r].state = "running" /\ work'[r].runs = 2
          /\ work'[r].kind = work[r].kind
      BY <3>2, <3>3 DEF Thread
    <3>5. work'[r] \in Thread
      BY <3>2, <3>3 DEF Thread
    <3> QED  BY <1>3, <3>4, <3>5
  <2>2. work' \in [Requests -> Thread]
    <3>1. work' = [q \in Requests |-> work'[q]]
      BY <1>3, <1>4, <1>7
    <3>2. \A q \in Requests : work'[q] \in Thread
      BY <1>3, <1>5, <2>1
    <3> QED  BY <3>1, <3>2
  <2>3. UNCHANGED <<program, enabled, tableOid, queue, shown, history>>
    BY DEF SecondStart
  <2>4. WindowTypeOK'
    BY <1>1, <1>2, <2>2, <2>3 DEF WindowTypeOK
  <2>5. RunsInOrder'
    <3>1. InOrder(r, work'[r], queue')
      BY <2>1 DEF InOrder
    <3>2. \A q \in Requests : q # r => InOrder(q, work'[q], queue')
      BY <1>1, <1>2, <1>5 DEF RunsInOrder
    <3> QED  BY <3>1, <3>2 DEF RunsInOrder
  <2>6. BetweenStarts'
    BY <1>2 DEF BetweenStarts
  <2>7. \A q \in Requests : /\ Outstanding(q)' <=> Outstanding(q)
                            /\ work'[q].kind = work[q].kind
    <3>1. Outstanding(r)'
      BY <1>2, <1>3, <2>1, OutstandingThen
    <3>2. \A q \in Requests : q # r => (Outstanding(q)' <=> Outstanding(q))
      BY <1>2, <1>3, <1>5, OutstandingIs, OutstandingThen
    <3> QED  BY <1>3, <1>5, <2>1, <3>1, <3>2
  <2>8. Gets' = Gets
    BY <2>7 DEF Gets
  <2>9. ButtonsGuard'
    BY <2>3, <2>8 DEF WindowInv, ButtonsGuard
  <2>10. LastClick'
    BY <1>5, <2>1, <2>3, <2>7 DEF WindowInv, LastClick
  <2>11. DestroyedOnlyIfRestarted'
    BY <1>2, <2>3 DEF DestroyedOnlyIfRestarted
  <2> QED  BY <1>2, <2>3, <2>4, <2>5, <2>6, <2>9, <2>10, <2>11 DEF WindowInv
<1> QED  BY <1>6, <1>7

\* A step that changes neither requests nor events nor what the window knows.
LEMMA StepElsewhere ==
    ASSUME WindowInv,
           UNCHANGED <<enabled, restart, tableOid, work, queue, shown, history>>,
           program' \notin {"row of an empty table", "destroyed while running"}
               \/ program' = program
    PROVE  WindowInv'
<1>1. Gets' = Gets /\ \A r \in Requests : Outstanding(r)' <=> Outstanding(r)
  BY DEF Gets, Outstanding, Awaited
<1>2. WindowTypeOK' /\ RunsInOrder'
  BY DEF WindowInv, WindowTypeOK, RunsInOrder
<1>3. BetweenStarts'
  <2>1. BetweenStarts /\ WindowTypeOK
    BY DEF WindowInv
  <2>2. restart # <<>> => Head(restart) \in Requests
    BY <2>1, HeadOfRestart
  <2> QED  BY <1>1, <2>1, <2>2 DEF BetweenStarts
<1>4. ButtonsGuard' /\ LastClick'
  BY <1>1 DEF WindowInv, ButtonsGuard, LastClick
<1>5. DestroyedOnlyIfRestarted'
  BY DEF WindowInv, DestroyedOnlyIfRestarted, Running
<1> QED  BY <1>2, <1>3, <1>4, <1>5 DEF WindowInv

\* A run emits its result once: nothing of that run is queued before.
LEMMA StepEmitResult ==
    ASSUME WindowInv, NEW r \in Requests, EmitResult(r)
    PROVE  WindowInv'
<1>1. WindowTypeOK /\ RunsInOrder
  BY DEF WindowInv
<1>2. /\ queue \in Seq(Event) /\ work \in [Requests -> Thread] /\ program = "up"
      /\ work[r].state = "running" /\ work[r] \in Thread
      /\ UNCHANGED <<program, enabled, restart, tableOid, shown, history>>
  BY <1>1 DEF EmitResult, WindowTypeOK, Up
<1>3. PICK text \in {"", "text"} : queue' = Append(queue, Result(r, text))
  BY DEF EmitResult
<1> DEFINE e == Result(r, text)
<1>4. e \in Event /\ e.type = "result" /\ e.req = r
  BY Events
<1>5. /\ work'[r].state = "emitted" /\ work'[r].kind = work[r].kind
      /\ work'[r].runs = work[r].runs /\ work'[r].table = work[r].table
      /\ \A q \in Requests : q # r => work'[q] = work[q]
      /\ work' \in [Requests -> Thread]
  BY <1>2, ThreadStep DEF EmitResult
<1> HIDE DEF e
<1>7. /\ queue' \in Seq(Event) /\ Len(queue') = Len(queue) + 1 /\ Len(queue) \in Nat
      /\ queue'[Len(queue) + 1] = e
      /\ \A i \in 1 .. Len(queue) : queue'[i] = queue[i]
      /\ \A i \in 1 .. Len(queue') : i \in 1 .. Len(queue) \/ i = Len(queue) + 1
      /\ \A q \in Requests :
           HasResult(queue', q) <=> HasResult(queue, q) \/ IsResult(e, q)
  BY <1>2, <1>3, <1>4, AppendToQueue DEF e
<1>9. WindowTypeOK'
  BY <1>1, <1>2, <1>5, <1>7 DEF WindowTypeOK
<1>10. \A q \in Requests : /\ Outstanding(q)' <=> Outstanding(q)
                           /\ work'[q].kind = work[q].kind
                           /\ work'[q].runs = work[q].runs
                           /\ work'[q].table = work[q].table
  <2>1. \A q \in Requests : q # r => (Outstanding(q)' <=> Outstanding(q))
    BY <1>2, <1>4, <1>5, <1>7, OutstandingIs, OutstandingThen DEF IsResult
  <2>2. Outstanding(r)' /\ Outstanding(r)
    BY <1>2, <1>4, <1>7, OutstandingIs, OutstandingThen DEF IsResult
  <2> QED  BY <1>5, <2>1, <2>2
<1>11. RunsInOrder'
  <2>1. ASSUME NEW q \in Requests, q # r  PROVE InOrder(q, work'[q], queue')
    <3>1. InOrder(q, work[q], queue) /\ work'[q] = work[q]
      BY <1>1, <1>5, <2>1 DEF RunsInOrder
    <3>2. ~IsResult(e, q) /\ e # Delete(q) /\ e.req # q
      BY <1>4, <2>1, Events DEF IsResult
    <3> QED  BY <1>7, <3>1, <3>2 DEF InOrder
  <2>2. InOrder(r, work'[r], queue')
    <3>1. InOrder(r, work[r], queue)
      BY <1>1 DEF RunsInOrder
    <3>2. work[r].runs # 0
      BY <1>2, <3>1 DEF InOrder
    <3>3. e # Delete(r)
      BY <1>4, Events
    <3>4. work[r].runs = 1 => \A i \in 1 .. Len(queue) : queue[i].req # r
      BY <1>2, <3>1 DEF InOrder
    <3>5. Delete(r).req = r
      BY Events
    <3>6. work[r].runs = 1 =>
            \A i \in 1 .. Len(queue') : queue'[i].req = r => i = Len(queue) + 1
      BY <1>7, <3>4
    <3>7. work[r].runs = 1 => \A i \in 1 .. Len(queue') : queue'[i] # Delete(r)
      BY <1>7, <3>3, <3>5, <3>6
    <3>8. work[r].runs = 1 =>
            \A i, j \in 1 .. Len(queue') :
              IsResult(queue'[i], r) /\ IsResult(queue'[j], r) => i = j
      BY <3>6 DEF IsResult
    <3>9. work[r].runs = 2 => work[r].kind = "Column"
      BY <3>1 DEF InOrder
    <3> QED  BY <1>5, <3>2, <3>7, <3>8, <3>9 DEF InOrder
  <2> QED  BY <2>1, <2>2 DEF RunsInOrder
<1>12. BetweenStarts'
  <2>1. BetweenStarts
    BY DEF WindowInv
  <2>2. restart # <<>> => Head(restart) \in Requests
    BY <1>1, HeadOfRestart
  <2>3. \A q \in Requests : work[q].state # "none" => work'[q].state # "none"
    BY <1>5
  <2> QED  BY <1>2, <1>10, <2>1, <2>2, <2>3 DEF BetweenStarts
<1>13. Gets' = Gets
  BY <1>10 DEF Gets
<1>14. ButtonsGuard' /\ LastClick'
  BY <1>2, <1>10, <1>13 DEF WindowInv, ButtonsGuard, LastClick
<1>15. DestroyedOnlyIfRestarted'
  BY <1>2 DEF DestroyedOnlyIfRestarted
<1> QED  BY <1>2, <1>9, <1>11, <1>12, <1>14, <1>15 DEF WindowInv

\* The end of a run queues the deletion behind its result.
LEMMA StepEndRun ==
    ASSUME WindowInv, NEW r \in Requests, EndRun(r)
    PROVE  WindowInv'
<1>1. WindowTypeOK /\ RunsInOrder
  BY DEF WindowInv
<1>2. /\ queue \in Seq(Event) /\ work \in [Requests -> Thread] /\ program = "up"
      /\ work[r].state = "emitted" /\ work[r] \in Thread
      /\ UNCHANGED <<program, enabled, restart, tableOid, shown, history>>
      /\ queue' = Append(queue, Delete(r))
  BY <1>1 DEF EndRun, WindowTypeOK, Up
<1> DEFINE e == Delete(r)
<1>4. e \in Event /\ e.type = "delete" /\ e.req = r
  BY Events
<1>5. /\ work'[r].state = "ended" /\ work'[r].kind = work[r].kind
      /\ work'[r].runs = work[r].runs /\ work'[r].table = work[r].table
      /\ \A q \in Requests : q # r => work'[q] = work[q]
      /\ work' \in [Requests -> Thread]
  BY <1>2, ThreadStep DEF EndRun
<1> HIDE DEF e
<1>7. /\ queue' \in Seq(Event) /\ Len(queue') = Len(queue) + 1 /\ Len(queue) \in Nat
      /\ queue'[Len(queue) + 1] = e
      /\ \A i \in 1 .. Len(queue) : queue'[i] = queue[i]
      /\ \A i \in 1 .. Len(queue') : i \in 1 .. Len(queue) \/ i = Len(queue) + 1
      /\ \A q \in Requests :
           HasResult(queue', q) <=> HasResult(queue, q) \/ IsResult(e, q)
  BY <1>2, <1>4, AppendToQueue DEF e
<1>9. WindowTypeOK'
  BY <1>1, <1>2, <1>5, <1>7 DEF WindowTypeOK
<1>10. \A q \in Requests : /\ Outstanding(q)' <=> Outstanding(q)
                           /\ work'[q].kind = work[q].kind
                           /\ work'[q].runs = work[q].runs
                           /\ work'[q].table = work[q].table
  <2>1. \A q \in Requests : ~IsResult(e, q)
    BY <1>4 DEF IsResult
  <2>2. \A q \in Requests : work'[q].state = "running" <=> work[q].state = "running"
    BY <1>2, <1>5
  <2>3. \A q \in Requests : Outstanding(q)' <=> Outstanding(q)
    BY <1>2, <1>7, <2>1, <2>2, OutstandingIs, OutstandingThen
  <2> QED  BY <1>5, <2>3
<1>11. RunsInOrder'
  <2>1. ASSUME NEW q \in Requests, q # r  PROVE InOrder(q, work'[q], queue')
    <3>1. InOrder(q, work[q], queue) /\ work'[q] = work[q]
      BY <1>1, <1>5, <2>1 DEF RunsInOrder
    <3>2. ~IsResult(e, q) /\ e # Delete(q) /\ e.req # q
      BY <1>4, <2>1, Events DEF IsResult
    <3> QED  BY <1>7, <3>1, <3>2 DEF InOrder
  <2>2. InOrder(r, work'[r], queue')
    <3>1. InOrder(r, work[r], queue)
      BY <1>1 DEF RunsInOrder
    <3>2. work[r].runs # 0
      BY <1>2, <3>1 DEF InOrder
    <3>3. ~IsResult(e, r)
      BY <1>4 DEF IsResult
    <3> QED  BY <1>5, <1>7, <3>1, <3>2, <3>3 DEF InOrder
  <2> QED  BY <2>1, <2>2 DEF RunsInOrder
<1>12. BetweenStarts'
  <2>1. BetweenStarts
    BY DEF WindowInv
  <2>2. restart # <<>> => Head(restart) \in Requests
    BY <1>1, HeadOfRestart
  <2>3. \A q \in Requests : work[q].state # "none" => work'[q].state # "none"
    BY <1>5
  <2> QED  BY <1>2, <1>10, <2>1, <2>2, <2>3 DEF BetweenStarts
<1>13. Gets' = Gets
  BY <1>10 DEF Gets
<1>14. ButtonsGuard' /\ LastClick'
  BY <1>2, <1>10, <1>13 DEF WindowInv, ButtonsGuard, LastClick
<1>15. DestroyedOnlyIfRestarted'
  BY <1>2 DEF DestroyedOnlyIfRestarted
<1> QED  BY <1>2, <1>9, <1>11, <1>12, <1>14, <1>15 DEF WindowInv

\* The slot takes the first event and shows it, or ends the program.
LEMMA StepGetRequestResult ==
    ASSUME WindowInv, GetRequestResult
    PROVE  WindowInv'
<1>1. /\ WindowTypeOK /\ RunsInOrder /\ ButtonsGuard /\ LastClick
      /\ program = "up" /\ restart = <<>> /\ restart' = <<>>
      /\ UNCHANGED <<selected, tableOid, work>>
      /\ queue # <<>> /\ queue' = Tail(queue)
  BY DEF WindowInv, GetRequestResult, GuiIdle, Up
<1>2. PICK e \in Event : e = Head(queue) /\ e = queue[1] /\ e.type = "result"
  BY <1>1, HeadAndTail DEF WindowTypeOK, GetRequestResult
<1>3. PICK r \in Requests : r = e.req
  BY <1>2 DEF Event
<1>4. /\ 1 \in 1 .. Len(queue) /\ queue' \in Seq(Event)
      /\ \A i \in 1 .. Len(queue') : i + 1 \in 1 .. Len(queue) /\ queue'[i] = queue[i + 1]
      /\ \A q \in Requests : HasResult(queue', q) => HasResult(queue, q)
      /\ queue \in Seq(Event) /\ work \in [Requests -> Thread]
      /\ history \in [early : BOOLEAN, overlapped : BOOLEAN]
  BY <1>1, HeadAndTail DEF WindowTypeOK
<1>5. HasResult(queue, r)
  BY <1>2, <1>3, <1>4 DEF HasResult, IsResult
<1>6. \A q \in Requests :
        /\ Outstanding(q)' <=> work[q].state = "running" \/ HasResult(queue', q)
        /\ Outstanding(q)' => Outstanding(q)
        /\ Awaited(q, Tail(queue)) <=> Outstanding(q)'
  BY <1>1, <1>4, OutstandingIs, OutstandingThen, AwaitedInTail
<1>7. Outstanding(r)
  BY <1>4, <1>5, OutstandingIs
<1>8. RunsInOrder'
  <2> SUFFICES ASSUME NEW q \in Requests  PROVE InOrder(q, work[q], queue')
    BY <1>1 DEF RunsInOrder
  <2>1. InOrder(q, work[q], queue)
    BY <1>1 DEF RunsInOrder
  <2>2. ASSUME NEW i \in 1 .. Len(queue'), NEW j \in 1 .. Len(queue'), i + 1 = j + 1
        PROVE  i = j
    BY <1>4, <2>2
  <2>3. \A i, j \in 1 .. Len(queue') :
          work[q].runs = 1 /\ IsResult(queue'[i], q) /\ IsResult(queue'[j], q) => i + 1 = j + 1
    BY <1>4, <2>1 DEF InOrder
  <2> QED  BY <1>4, <2>1, <2>2, <2>3 DEF InOrder
<1>9. BetweenStarts'
  BY <1>1 DEF BetweenStarts
<1>10. Gets' \subseteq Gets
  BY <1>1, <1>6 DEF Gets
<1>11. ASSUME UNCHANGED <<enabled, shown, history>>
       PROVE  WindowTypeOK' /\ ButtonsGuard' /\ LastClick'
  BY <1>1, <1>4, <1>6, <1>10, <1>11 DEF WindowTypeOK, ButtonsGuard, LastClick
\* The request whose result was the last word of a GET is not waited for any more,
\* or somebody notes that another one is.
<1>12. ASSUME EnableButtons(r), UNCHANGED shown \/ shown' = tableOid
       PROVE  WindowTypeOK' /\ ButtonsGuard' /\ LastClick'
  <2>1. /\ enabled' = TRUE
        /\ history' \in [early : BOOLEAN, overlapped : BOOLEAN]
        /\ history'.overlapped = history.overlapped
        /\ history.early => history'.early
        /\ ~history'.early /\ (work[r].kind = "Index" \/ work[r].runs = 2) =>
             \A q \in Requests : work[q].kind # "Index" => ~Awaited(q, Tail(queue))
    BY <1>4, <1>12 DEF EnableButtons
  <2>2. ~history'.early => Gets' = {}
    <3> SUFFICES ASSUME ~history'.early  PROVE Gets' = {}
      OBVIOUS
    <3>1. CASE work[r].kind = "Index" \/ work[r].runs = 2
      BY <1>1, <1>6, <2>1, <3>1 DEF Gets
    <3>2. CASE work[r].kind # "Index" /\ work[r].runs # 2
      <4>1. r \in Gets
        BY <1>7, <3>2 DEF Gets
      <4>2. \A q \in Gets : q = r
        BY <1>1, <2>1, <4>1 DEF ButtonsGuard
      <4>3. InOrder(r, work[r], queue)
        BY <1>1 DEF RunsInOrder
      <4>4. work[r].runs = 1
        <5>1. work[r].runs \in 0 .. 2
          BY <1>4 DEF Thread
        <5>2. work[r].runs # 0
          BY <1>2, <1>3, <1>4, <4>3 DEF InOrder
        <5> QED  BY <3>2, <5>1, <5>2
      <4>5. work[r].state # "running"
        BY <1>2, <1>3, <1>4, <4>3, <4>4 DEF InOrder
      <4>6. ~HasResult(queue', r)
        <5> SUFFICES ASSUME NEW i \in 1 .. Len(queue'), IsResult(queue'[i], r)
                     PROVE  FALSE
          BY DEF HasResult
        <5>1. i + 1 \in 1 .. Len(queue) /\ IsResult(queue[i + 1], r)
          BY <1>4
        <5>2. IsResult(queue[1], r)
          BY <1>2, <1>3 DEF IsResult
        <5>3. i + 1 = 1
          BY <1>4, <4>3, <4>4, <5>1, <5>2 DEF InOrder
        <5> QED  BY <1>4, <5>3
      <4>7. ~Outstanding(r)'
        BY <1>6, <4>5, <4>6
      <4> QED  BY <1>10, <4>2, <4>7 DEF Gets
    <3> QED  BY <3>1, <3>2
  <2>3. WindowTypeOK'
    BY <1>1, <1>4, <1>12, <2>1 DEF WindowTypeOK
  <2>4. ButtonsGuard'
    BY <2>2 DEF ButtonsGuard
  <2>5. LastClick'
    BY <1>1, <1>6, <1>12, <2>1 DEF LastClick
  <2> QED  BY <2>3, <2>4, <2>5
<1>13. ASSUME UNCHANGED program
       PROVE  /\ program' = "row of an empty table" => history'.overlapped
              /\ DestroyedOnlyIfRestarted'
  BY <1>1, <1>13 DEF DestroyedOnlyIfRestarted
<1>14. CASE ShowText(e)
  BY <1>3, <1>8, <1>9, <1>12, <1>13, <1>14 DEF ShowText, WindowInv
<1>15. CASE NoSuchObject(e)
  BY <1>8, <1>9, <1>11, <1>13, <1>15 DEF NoSuchObject, WindowInv
<1>16. CASE FillTable(e)
  <2>1. CASE work[r].table = tableOid
    <3>1. shown' = tableOid /\ EnableButtons(r) /\ UNCHANGED program
      BY <1>3, <1>16, <2>1 DEF FillTable
    <3> QED  BY <1>8, <1>9, <1>12, <1>13, <3>1 DEF WindowInv
  <2>2. CASE work[r].table # tableOid
    <3>1. /\ program' = "row of an empty table" /\ UNCHANGED <<enabled, shown, history>>
          /\ work[r].kind = "Index"
      BY <1>3, <1>16, <2>2 DEF FillTable
    <3>2. history.overlapped
      BY <1>1, <1>7, <2>2, <3>1 DEF LastClick
    <3>3. DestroyedOnlyIfRestarted'
      BY <3>1 DEF DestroyedOnlyIfRestarted
    <3> QED  BY <1>8, <1>9, <1>11, <3>1, <3>2, <3>3 DEF WindowInv
  <2> QED  BY <2>1, <2>2
<1> QED  BY <1>2, <1>14, <1>15, <1>16 DEF GetRequestResult

\* An object is freed after its result was handled, unless it runs again.
LEMMA StepDeleteLater ==
    ASSUME WindowInv, DeleteLater
    PROVE  WindowInv'
<1>1. /\ WindowTypeOK /\ RunsInOrder /\ ButtonsGuard /\ LastClick
      /\ program = "up" /\ restart = <<>> /\ restart' = <<>> /\ queue # <<>>
      /\ UNCHANGED <<selected, enabled, tableOid, shown, history>>
  BY DEF WindowInv, DeleteLater, GuiIdle, Up
<1>2. PICK e \in Event : e = Head(queue) /\ e = queue[1] /\ e.type = "delete"
  BY <1>1, HeadAndTail DEF WindowTypeOK, DeleteLater
<1>3. PICK r \in Requests : r = e.req
  BY <1>2 DEF Event
<1> DEFINE rest == Tail(queue)
<1>4. /\ 1 \in 1 .. Len(queue) /\ rest \in Seq(Event)
      /\ \A i \in 1 .. Len(rest) : i + 1 \in 1 .. Len(queue) /\ rest[i] = queue[i + 1]
      /\ queue \in Seq(Event) /\ work \in [Requests -> Thread]
  BY <1>1, HeadAndTail DEF WindowTypeOK
<1>5. /\ queue' = Without(rest, Delete(r))
      /\ IF Running(r) THEN program' = "destroyed while running" /\ UNCHANGED work
         ELSE work' = [work EXCEPT ![r].state = "none"] /\ UNCHANGED program
  BY <1>2, <1>3 DEF DeleteLater
<1> HIDE DEF rest
<1>6. queue' \in Seq(Event) /\ IsWithout(queue', rest, Len(rest), Delete(r))
  BY <1>4, <1>5, WithoutIsWithout
<1>7. PICK place \in [1 .. Len(queue') -> 1 .. Len(rest)] :
          /\ \A a, b \in 1 .. Len(queue') : a < b => place[a] < place[b]
          /\ \A a \in 1 .. Len(queue') : queue'[a] = rest[place[a]] /\ queue'[a] # Delete(r)
  BY <1>6 DEF IsWithout
<1> DEFINE from(a) == place[a] + 1
<1>8. ASSUME NEW a \in 1 .. Len(queue')
      PROVE  from(a) \in 1 .. Len(queue) /\ queue'[a] = queue[from(a)]
  <2>1. place[a] \in 1 .. Len(rest) /\ queue'[a] = rest[place[a]]
    BY <1>7
  <2> QED  BY <1>4, <2>1
<1>9. ASSUME NEW a \in 1 .. Len(queue'), NEW b \in 1 .. Len(queue'), from(a) = from(b)
      PROVE  a = b
  <2>1. place[a] \in 1 .. Len(rest) /\ place[b] \in 1 .. Len(rest) /\ Len(rest) \in Nat
    BY <1>4, <1>7
  <2>2. place[a] = place[b]
    BY <1>9, <2>1
  <2>3. ~ (a < b) /\ ~ (b < a)
    BY <1>7, <2>1, <2>2
  <2>4. Len(queue') \in Nat
    BY <1>6
  <2> QED  BY <2>3, <2>4
<1> HIDE DEF from
<1>10. /\ \A q \in Requests : HasResult(queue', q) => HasResult(queue, q)
       /\ \A q \in Requests : /\ work'[q].kind = work[q].kind
                              /\ work'[q].table = work[q].table
                              /\ work'[q].runs = work[q].runs
       /\ \A q \in Requests : work'[q].state = "running" <=> work[q].state = "running"
       /\ \A q \in Requests : q # r => work'[q] = work[q]
       /\ work' \in [Requests -> Thread]
  <2>1. \A q \in Requests : HasResult(queue', q) => HasResult(queue, q)
    BY <1>8 DEF HasResult
  <2>2. CASE Running(r)
    BY <1>4, <1>5, <2>1, <2>2
  <2>3. CASE ~Running(r)
    <3>1. work' = [work EXCEPT ![r].state = "none"]
      BY <1>5, <2>3
    <3>2. work[r].state # "running"
      BY <2>3 DEF Running
    <3> QED  BY <1>4, <2>1, <3>1, <3>2, ThreadStep
  <2> QED  BY <2>2, <2>3
<1>11. \A q \in Requests : Outstanding(q)' => Outstanding(q)
  BY <1>4, <1>6, <1>10, OutstandingIs, OutstandingThen
<1>12. e = Delete(r)
  BY <1>2, <1>3 DEF Event, Delete
<1>13. work[r].runs # 0 /\ (work[r].runs = 1 => work[r].state = "ended")
  <2>1. InOrder(r, work[r], queue)
    BY <1>1 DEF RunsInOrder
  <2> QED  BY <1>2, <1>3, <1>4, <1>12, <2>1 DEF InOrder
<1>14. Running(r) => work[r].runs = 2 /\ work[r].kind = "Column"
  <2>1. work[r].runs \in 0 .. 2
    BY <1>4 DEF Thread
  <2>2. Running(r) => work[r].runs # 1
    BY <1>13 DEF Running
  <2>3. InOrder(r, work[r], queue)
    BY <1>1 DEF RunsInOrder
  <2>4. work[r].runs = 2 => work[r].kind = "Column"
    BY <2>3 DEF InOrder
  <2> QED  BY <1>13, <2>1, <2>2, <2>4
<1>15. RunsInOrder'
  <2> SUFFICES ASSUME NEW q \in Requests  PROVE InOrder(q, work'[q], queue')
    BY DEF RunsInOrder
  <2>1. InOrder(q, work[q], queue)
    BY <1>1 DEF RunsInOrder
  <2>2. ASSUME work[q].runs = 1, NEW i \in 1 .. Len(queue'), NEW j \in 1 .. Len(queue'),
               IsResult(queue'[i], q), IsResult(queue'[j], q)
        PROVE  i = j
    <3>1. from(i) \in 1 .. Len(queue) /\ IsResult(queue[from(i)], q)
      BY <1>8, <2>2
    <3>2. from(j) \in 1 .. Len(queue) /\ IsResult(queue[from(j)], q)
      BY <1>8, <2>2
    <3>3. from(i) = from(j)
      BY <2>1, <2>2, <3>1, <3>2 DEF InOrder
    <3> QED  BY <1>9, <3>3
  <2>3. ASSUME NEW i \in 1 .. Len(queue'), \A j \in 1 .. Len(queue) : queue[j].req # q
        PROVE  queue'[i].req # q
    BY <1>8, <2>3
  <2>4. CASE q = r
    <3>1. \A i \in 1 .. Len(queue') : queue'[i] # Delete(q)
      BY <1>7, <2>4
    <3>2. work'[q].runs = 1 => work'[q].state # "running"
      BY <1>10, <1>13, <2>4
    <3>3. work'[q].runs # 0
      BY <1>10, <1>13, <2>4
    <3>4. work'[q].runs = 2 => work'[q].kind = "Column"
      BY <1>10, <2>1 DEF InOrder
    <3> QED  BY <1>10, <2>2, <3>1, <3>2, <3>3, <3>4 DEF InOrder
  <2>5. CASE q # r
    <3>1. work'[q] = work[q]
      BY <1>10, <2>5
    <3>2. ASSUME work[q].runs = 1, NEW i \in 1 .. Len(queue'), queue'[i] = Delete(q)
          PROVE  work[q].state = "ended"
      <4>1. from(i) \in 1 .. Len(queue) /\ queue[from(i)] = Delete(q)
        BY <1>8, <3>2
      <4> QED  BY <2>1, <3>2, <4>1 DEF InOrder
    <3> QED  BY <2>1, <2>2, <2>3, <3>1, <3>2 DEF InOrder
  <2> QED  BY <2>4, <2>5
<1>16. Gets' \subseteq Gets
  BY <1>10, <1>11 DEF Gets
<1>17. WindowTypeOK' /\ BetweenStarts' /\ ButtonsGuard' /\ LastClick'
  BY <1>1, <1>6, <1>10, <1>11, <1>16
     DEF WindowTypeOK, BetweenStarts, ButtonsGuard, LastClick
<1>18. /\ program' = "row of an empty table" => history'.overlapped
       /\ DestroyedOnlyIfRestarted'
  <2>1. CASE Running(r)
    <3>1. program' = "destroyed while running" /\ work' = work
      BY <1>5, <2>1
    <3>2. Running(r)' /\ work'[r].runs = 2 /\ work'[r].kind = "Column"
      BY <1>14, <2>1, <3>1 DEF Running
    <3> QED  BY <3>1, <3>2 DEF DestroyedOnlyIfRestarted
  <2>2. CASE ~Running(r)
    <3>1. program' = "up"
      BY <1>1, <1>5, <2>2
    <3> QED  BY <3>1 DEF DestroyedOnlyIfRestarted
  <2> QED  BY <2>1, <2>2
<1> QED  BY <1>15, <1>17, <1>18 DEF WindowInv

-----------------------------------------------------------------------------
(* The theorems.                                                           *)

\* Every step of the window and of its threads preserves the invariant.
LEMMA WindowStepInv == WindowInv /\ [WindowNext]_windowVars => WindowInv'
<1> SUFFICES ASSUME WindowInv, [WindowNext]_windowVars  PROVE WindowInv'
  OBVIOUS
<1>1. CASE Select
  BY <1>1, StepElsewhere DEF Select, GuiIdle, Up
<1>2. CASE ClickGetNoItem
  BY <1>2, StepElsewhere DEF ClickGetNoItem, GuiIdle, Up
<1>3. CASE SecondStart
  BY <1>3, StepSecondStart
<1>4. CASE GetRequestResult
  BY <1>4, StepGetRequestResult
<1>5. CASE DeleteLater
  BY <1>5, StepDeleteLater
<1>6. ASSUME NEW r \in Requests, NEW kind \in {"Get", "GetNext"}, ClickGet(r, kind)
      PROVE  WindowInv'
  <2>1. kind \in AllKinds \ {"Index"}
    BY DEF AllKinds
  <2> QED  BY <1>6, <2>1, StartGet DEF ClickGet, GuiIdle, Up
<1>7. ASSUME NEW r \in Requests, ClickColumn(r)
      PROVE  WindowInv'
  <2>1. "Column" \in AllKinds \ {"Index"}
    BY DEF AllKinds
  <2> QED  BY <1>7, <2>1, StartGet DEF ClickColumn, GuiIdle, Up
<1>8. ASSUME NEW r \in Requests, NEW t \in Tables, ClickIndexes(r, t)
      PROVE  WindowInv'
  BY <1>8, StepClickIndexes
<1>9. ASSUME NEW r \in Requests, EmitResult(r)  PROVE WindowInv'
  BY <1>9, StepEmitResult
<1>10. ASSUME NEW r \in Requests, Throw(r)  PROVE WindowInv'
  BY <1>10, StepElsewhere DEF Throw, Up
<1>11. ASSUME NEW r \in Requests, EndRun(r)  PROVE WindowInv'
  BY <1>11, StepEndRun
<1>12. CASE UNCHANGED windowVars
  BY <1>12, StepElsewhere DEF windowVars
<1> QED  BY <1>1, <1>2, <1>3, <1>4, <1>5, <1>6, <1>7, <1>8, <1>9, <1>10, <1>11, <1>12
         DEF WindowNext

\* Of the window as a whole: its events come in the order its threads emitted
\* them, the buttons guard one GET, the last index click is the one on show.
THEOREM WindowInvariant == WindowSpec => []WindowInv
<1> QED  BY WindowInitInv, WindowStepInv, PTL DEF WindowSpec

\* However many requests the window starts, one GET, GETNEXT or column walk is
\* outstanding at a time, unless Form::getRequestResult enabled the buttons on
\* the result of an index request or of a column walk that ran twice.
THEOREM OneGet == WindowSpec => []OneGetAtATime
<1>1. WindowInv => OneGetAtATime
  <2> SUFFICES ASSUME ButtonsGuard, ~history.early  PROVE Cardinality(Gets) <= 1
    BY DEF WindowInv, OneGetAtATime
  <2>1. CASE Gets = {}
    BY <2>1, FS_EmptySet
  <2>2. CASE Gets # {}
    <3>1. PICK r : r \in Gets
      BY <2>2
    <3>2. Gets = {r}
      BY <3>1 DEF ButtonsGuard
    <3> QED  BY <3>2, FS_Singleton
  <2> QED  BY <2>1, <2>2
<1> QED  BY <1>1, WindowInvariant, PTL

\* The index window shows the table of the last click or none, and the program
\* ends at the row of an empty table only after the user asked for two at once.
THEOREM TableAndHeading == WindowSpec => []TableMatchesHeading
<1>1. WindowInv => TableMatchesHeading
  BY DEF WindowInv, LastClick, TableMatchesHeading
<1> QED  BY <1>1, WindowInvariant, PTL

\* deleteLater destroys the object of a running thread only where the window
\* started a column walk for the second time.
THEOREM DestroyedRestarted == WindowSpec => []DestroyedOnlyIfRestarted
<1>1. WindowInv => DestroyedOnlyIfRestarted
  BY DEF WindowInv
<1> QED  BY <1>1, WindowInvariant, PTL

=============================================================================

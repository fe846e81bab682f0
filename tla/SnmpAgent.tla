----------------------------- MODULE SnmpAgent -----------------------------
(***************************************************************************)
(* How the agent carries requests through its handlers                     *)
(* (agent/snmp_agent.c): netsnmp_handle_request, the passes over the       *)
(* handlers, requests whose handlers answer later (delegated, as those of  *)
(* a subagent), and netsnmp_check_outstanding_agent_requests.              *)
(*                                                                         *)
(* A request (an agent session, asp) is a number, 0 is NULL.  Its variable *)
(* bindings are 1..Vars; each belongs to the subtree of an agent: 0, whose *)
(* handlers answer at once, or a subagent, whose handlers delegate.        *)
(* Subtrees are in the order of these numbers.  A handler is known by what *)
(* it does to a binding: answer it, refuse it, pass it on (GETNEXT) or     *)
(* delegate it.                                                            *)
(*                                                                         *)
(* The agent has one thread.  `pc' is where it is; "main" is the loop of   *)
(* snmpd, between two packets or on its way to the check of the            *)
(* outstanding requests.                                                   *)
(***************************************************************************)
EXTENDS Naturals

CONSTANTS MaxRequests,  \* bound on the requests that arrive
          Vars,         \* number of variable bindings of each request
          Subagents,    \* number of subagents
          Commands      \* what each may be: a subset of {"GET", "GETNEXT", "SET"}

ASSUME SnmpAgentAssumption ==
    /\ {MaxRequests, Subagents} \subseteq Nat
    /\ Vars \in [1 .. MaxRequests -> Nat \ {0}]
    /\ Commands \in [1 .. MaxRequests -> SUBSET {"GET", "GETNEXT", "SET"}]

Requests == 1 .. MaxRequests
Bindings(r) == 1 .. Vars[r]
Owners == 0 .. Subagents

VARIABLES asp,              \* the agent sessions
          link,             \* asp->next, used by both lists
          delegatedList,    \* agent_delegated_list
          queuedList,       \* netsnmp_agent_queued_list
          processingSet,    \* netsnmp_processing_set
          pc, cur, caller,  \* where the thread is, with which request, for whom
          status,           \* what handle_pdu or a loop returned
          scan,             \* next_asp and prev_asp of the scan
          closed            \* subagents whose sessions were closed

listVars == <<link, delegatedList, queuedList, processingSet>>
vars == <<asp, listVars, pc, cur, caller, status, scan, closed>>

\* init_agent_snmp_session.  mode: a mode of SET processing or "".
\* stage: "new", "refused", "open", "answered" or, answered with an error,
\* "failed".  mixed (history): a pass of netsnmp_handle_request failed and also
\* delegated.
NewAsp(r) ==
    [stage |-> "new", command |-> "", mode |-> "", status |-> "ok", index |-> 0,
     var |-> [v \in Bindings(r) |->
                 [owner |-> 0, delegated |-> FALSE, status |-> "ok", found |-> FALSE]],
     mixed |-> FALSE]

Init ==
    /\ asp = [r \in Requests |-> NewAsp(r)]
    /\ link = [r \in Requests |-> 0]
    /\ delegatedList = 0 /\ queuedList = 0 /\ processingSet = 0
    /\ pc = "main" /\ cur = 0 /\ caller = "packet" /\ status = "ok"
    /\ scan = [next |-> 0, prev |-> 0]
    /\ closed = {}

-----------------------------------------------------------------------------
(* The lists.                                                              *)

\* The k-th session of the list that begins with h.
Nth(h) ==
    LET nth[k \in 0 .. MaxRequests] ==
            IF k = 0 THEN h
            ELSE IF nth[k - 1] = 0 THEN 0 ELSE link[nth[k - 1]]
    IN  nth

InList(h) == {Nth(h)[k] : k \in 0 .. MaxRequests} \ {0}

Delegated(a) == \E v \in DOMAIN a.var : a.var[v].delegated

\* netsnmp_add_queued
AddQueued(r) ==
    IF queuedList = 0
    THEN queuedList' = r /\ UNCHANGED link
    ELSE /\ link' = [t \in Requests |->
                       IF t \in InList(queuedList) /\ link[t] = 0 /\ r \notin InList(queuedList)
                       THEN r ELSE link[t]]
         /\ UNCHANGED queuedList

\* netsnmp_check_for_delegated_and_add, for a session that has delegated.
AddDelegated(r) ==
    IF r \in InList(delegatedList)
    THEN UNCHANGED <<link, delegatedList>>
    ELSE /\ link' = [link EXCEPT ![r] = delegatedList]
         /\ delegatedList' = r

\* The thread goes back to who called it and drops its local variables.
BackTo(c) ==
    /\ pc' = CASE c = "scan" -> "scan"
               [] c = "queue" /\ processingSet' = 0 -> "queue"
               [] OTHER -> "main"
    /\ cur' = 0 /\ caller' = "packet" /\ status' = "ok"

-----------------------------------------------------------------------------
(* handle_snmp_packet and netsnmp_handle_request.                          *)

\* Requests are numbered as they arrive.
Arrives(r) == \A t \in Requests : asp[t].stage = "new" <=> t >= r

\* An unknown context, or access control that is not set up: no answer for a
\* community, an error for SNMPv3.
Refuse(r) ==
    /\ pc = "main"
    /\ Arrives(r)
    /\ asp' = [asp EXCEPT ![r].stage = "refused"]
    /\ UNCHANGED <<listVars, pc, cur, caller, status, scan, closed>>

Receive(r, command) ==
    /\ pc = "main"
    /\ Arrives(r)
    /\ asp' = [asp EXCEPT ![r].stage = "open", ![r].command = command]
    /\ pc' = "handle" /\ cur' = r /\ caller' = "packet"
    /\ UNCHANGED <<listVars, status, scan, closed>>

Newcomer == cur \notin InList(delegatedList) /\ cur # processingSet

QueueBehindSet ==
    /\ pc = "handle"
    /\ Newcomer
    /\ processingSet # 0
    /\ AddQueued(cur)
    /\ UNCHANGED <<delegatedList, processingSet>>
    /\ BackTo(caller)
    /\ UNCHANGED <<asp, scan, closed>>

QueueSet ==
    /\ pc = "handle"
    /\ Newcomer
    /\ processingSet = 0
    /\ asp[cur].command = "SET"
    /\ delegatedList # 0
    /\ processingSet' = cur
    /\ AddQueued(cur)
    /\ UNCHANGED delegatedList
    /\ BackTo(caller)
    /\ UNCHANGED <<asp, scan, closed>>

\* Mutant: a SET does not wait for what is delegated.
MayBeginAtOnce == Newcomer => processingSet = 0

MayBegin ==
    Newcomer => /\ processingSet = 0
                /\ asp[cur].command = "SET" => delegatedList = 0

\* handle_pdu up to its first pass: a subtree is found for each binding; for a
\* SET, access control refuses a binding before any handler is called.
Begin ==
    /\ pc = "handle"
    /\ MayBegin
    /\ processingSet' = IF asp[cur].command = "SET" THEN cur ELSE processingSet
    /\ \/ /\ pc' = "pass"
          /\ \E owner \in [Bindings(cur) -> Owners \ closed] :
               asp' = [asp EXCEPT
                         ![cur].mode = IF asp[cur].command = "SET" THEN "BEGIN" ELSE @,
                         ![cur].var = [v \in Bindings(cur) |-> [@[v] EXCEPT !.owner = owner[v]]]]
          /\ UNCHANGED status
       \/ /\ asp[cur].command = "SET"
          /\ pc' = "handled"
          /\ status' = "error"
          /\ UNCHANGED asp
    /\ UNCHANGED <<link, delegatedList, queuedList, cur, caller, scan, closed>>

-----------------------------------------------------------------------------
(* A pass over the handlers.                                               *)

\* netsnmp_check_requests_status without a specific error: the lowest binding
\* that failed, if no lower one is recorded.
Checked(a) ==
    LET failed == {v \in DOMAIN a.var : a.var[v].status # "ok"}
        lowest == CHOOSE v \in failed : \A w \in failed : v <= w
    IN  IF failed # {} /\ (a.index = 0 \/ lowest < a.index)
        THEN [a EXCEPT !.index = lowest, !.status = a.var[lowest].status]
        ELSE a

\* ... with a specific error: the last binding that has it.
CheckedFor(error, a) ==
    LET failed == {v \in DOMAIN a.var : a.var[v].status = error}
        last == CHOOSE v \in failed : \A w \in failed : v >= w
    IN  IF failed # {} THEN [a EXCEPT !.index = last, !.status = error] ELSE a

CheckedIn(mode, a) ==
    CASE mode = "COMMIT" -> CheckedFor("COMMITFAILED", a)
      [] mode = "UNDO" -> CheckedFor("UNDOFAILED", a)
      [] OTHER -> Checked(a)

\* netsnmp_request_set_error by a handler in a mode.
Failure(mode) ==
    CASE mode = "COMMIT" -> "COMMITFAILED"
      [] mode = "UNDO" -> "UNDOFAILED"
      [] OTHER -> "error"

\* What the handlers may make of a binding.  GETNEXT goes to the handlers only
\* for the bindings not found yet; a binding not found goes to a later subtree.
\* A subtree whose subagent has gone has no handlers (reginfo is NULL).
Handled(mode, b) ==
    IF b.found THEN {b}
    ELSE IF b.owner \in closed THEN {b}
    ELSE {[b EXCEPT !.status = Failure(mode)]}
           \cup IF b.owner = 0 THEN {[b EXCEPT !.found = f] : f \in {mode = "GETNEXT", FALSE}}
                ELSE {[b EXCEPT !.delegated = TRUE]}

\* What the handlers may make of the bindings, one outcome for each.
Outcomes(mode, a) ==
    {f \in [DOMAIN a.var -> UNION {Handled(mode, a.var[v]) : v \in DOMAIN a.var}] :
        \A v \in DOMAIN a.var : f[v] \in Handled(mode, a.var[v])}

\* A subtree that was unregistered with its session has no handlers to call.
NoHandlers(a) == \E v \in DOMAIN a.var : ~a.var[v].found /\ a.var[v].owner \in closed

\* handle_var_requests: all outcomes of a pass.  A handler may also fail
\* without saying for which binding, as a subtree without handlers does;
\* `final' is the status returned.
Passes(mode, a) ==
    {[asp |-> CheckedIn(mode, [a EXCEPT !.var = var]), failed |-> failed] :
        var \in Outcomes(mode, a),
        failed \in {f \in BOOLEAN : NoHandlers(a) => f}}

Final(p) == IF p.asp.status # "ok" THEN p.asp.status
            ELSE IF p.failed THEN "error" ELSE "ok"

PassGet ==
    /\ pc = "pass"
    /\ asp[cur].command = "GET"
    /\ \E p \in Passes("GET", asp[cur]) :
         /\ asp' = [asp EXCEPT ![cur] = p.asp]
         /\ status' = Final(p)
    /\ pc' = "handled"
    /\ UNCHANGED <<listVars, cur, caller, scan, closed>>

\* A pass of GETNEXT; an error ends it.
PassGetNext ==
    /\ pc = "pass"
    /\ asp[cur].command = "GETNEXT"
    /\ \E p \in Passes("GETNEXT", asp[cur]) :
         /\ asp' = [asp EXCEPT ![cur] = p.asp]
         /\ status' = Final(p)
         /\ pc' = IF Final(p) = "ok" THEN "getnext" ELSE "handled"
    /\ UNCHANGED <<listVars, cur, caller, scan, closed>>

\* netsnmp_reassign_requests: a binding not found is asked of the next
\* subtree; behind the last one it is the end of the MIB.
Reassigned(b) ==
    LET later == {o \in Owners \ closed : o > b.owner}
        next == CHOOSE o \in later : \A p \in later : o <= p
    IN  IF b.found THEN b
        ELSE IF later # {} THEN [b EXCEPT !.owner = next, !.status = "ok"]
        ELSE [b EXCEPT !.found = TRUE, !.status = "ok"]

\* The head of handle_getnext_loop.
GetNextLoop ==
    /\ pc = "getnext"
    /\ status' = "ok"
    /\ IF Delegated(asp[cur]) \/ \A v \in Bindings(cur) : asp[cur].var[v].found
       THEN pc' = "handled" /\ UNCHANGED asp
       ELSE /\ pc' = "pass"
            /\ asp' = [asp EXCEPT ![cur].var = [v \in Bindings(cur) |-> Reassigned(@[v])]]
    /\ UNCHANGED <<listVars, cur, caller, scan, closed>>

\* The modes of SET processing, as handle_set takes them.
NextMode(mode, failed) ==
    CASE mode = "BEGIN" -> "RESERVE1"
      [] mode = "RESERVE1" -> IF failed THEN "FREE" ELSE "RESERVE2"
      [] mode = "RESERVE2" -> IF failed THEN "FREE" ELSE "ACTION"
      [] mode = "ACTION" -> IF failed THEN "UNDO" ELSE "COMMIT"
      [] mode = "COMMIT" -> IF failed THEN "FAILURE" ELSE "SUCCESS"
      [] mode \in {"UNDO", "FREE"} -> "FAILURE"

Finished(mode) == mode \in {"SUCCESS", "FAILURE"}

\* handle_set, and whether handle_set_loop goes on.
PassSet ==
    /\ pc = "pass"
    /\ asp[cur].command = "SET"
    /\ LET mode == NextMode(asp[cur].mode, asp[cur].status # "ok")
           begun == [asp[cur] EXCEPT !.mode = mode]
       IN  IF Finished(mode)
           THEN /\ asp' = [asp EXCEPT ![cur] = begun]
                /\ status' = begun.status
                /\ pc' = "handled"
           ELSE \E p \in Passes(mode, begun) :
                  /\ asp' = [asp EXCEPT ![cur] = [p.asp EXCEPT
                       !.status = Final(p),
                       !.mixed = @ \/ /\ caller # "scan"
                                      /\ Delegated(p.asp) /\ Final(p) # "ok"]]
                  /\ status' = "ok"
                  /\ pc' = IF Delegated(p.asp) THEN "handled" ELSE "pass"
    /\ UNCHANGED <<listVars, cur, caller, scan, closed>>

-----------------------------------------------------------------------------
(* The end of netsnmp_handle_request and of check_delayed_request.         *)

\* Mutant: a SET is not taken back from netsnmp_processing_set.
WrapUpKeepsSet(returned) ==
    /\ asp' = [asp EXCEPT ![cur] =
                  [NewAsp(cur) EXCEPT !.stage =
                     IF asp[cur].status = "ok" /\ returned = "ok" THEN "answered" ELSE "failed"]]
    /\ UNCHANGED <<link, delegatedList, queuedList, processingSet>>

\* netsnmp_wrap_up_request: the response is sent, the session freed.
WrapUp(returned) ==
    /\ processingSet' = IF processingSet = cur THEN 0 ELSE processingSet
    /\ asp' = [asp EXCEPT ![cur] =
                  [NewAsp(cur) EXCEPT !.stage =
                     IF asp[cur].status = "ok" /\ returned = "ok" THEN "answered" ELSE "failed"]]
    /\ UNCHANGED <<link, delegatedList, queuedList>>

\* netsnmp_handle_request: the status that handle_pdu returned is the
\* session's, whatever the pass recorded there.
HandledNew ==
    /\ pc = "handled"
    /\ caller # "scan"
    /\ IF Delegated(asp[cur])
       THEN /\ AddDelegated(cur)
            /\ asp' = [asp EXCEPT ![cur].status = status]
            /\ UNCHANGED <<queuedList, processingSet>>
       ELSE WrapUp(status)
    /\ BackTo(caller)
    /\ UNCHANGED <<scan, closed>>

\* Mutant: a session that is delegated again is dropped from a list it heads.
PrevAfterForgotten == scan.prev

\* The head of the list that was taken out and put back is not dropped.
PrevAfter ==
    IF scan.prev = 0 /\ delegatedList' = cur THEN cur ELSE scan.prev

\* check_delayed_request, and the step of the scan behind it.
HandledDelayed ==
    /\ pc = "handled"
    /\ caller = "scan"
    /\ IF Delegated(asp[cur])
       THEN AddDelegated(cur) /\ UNCHANGED <<asp, queuedList, processingSet>>
       ELSE WrapUp("ok")
    /\ scan' = [scan EXCEPT !.prev = PrevAfter]
    /\ BackTo(caller)
    /\ UNCHANGED closed

-----------------------------------------------------------------------------
(* netsnmp_check_outstanding_agent_requests.                               *)

ScanFrom(head) == pc' = "scan" /\ scan' = [next |-> head, prev |-> 0]

CheckOutstanding ==
    /\ pc = "main"
    /\ delegatedList # 0 \/ queuedList # 0
    /\ ScanFrom(delegatedList)
    /\ UNCHANGED <<asp, listVars, cur, caller, status, closed>>

ScanWaiting ==
    /\ pc = "scan"
    /\ scan.next # 0
    /\ Delegated(asp[scan.next])
    /\ scan' = [next |-> link[scan.next], prev |-> scan.next]
    /\ UNCHANGED <<asp, listVars, pc, cur, caller, status, closed>>

\* Mutant: the errors of late answers are left to the next pass.
LateUnchecked(a) == a

\* The errors that the late answers brought.
Late(a) == CheckedIn(a.mode, Checked(a))

\* A session whose handlers have all answered leaves the list, and
\* check_delayed_request goes on with it.
ScanDone ==
    /\ pc = "scan"
    /\ scan.next # 0
    /\ LET r == scan.next
           a == Late(asp[r])
           next == link[r]
       IN  /\ ~Delegated(asp[r])
           /\ IF scan.prev = 0
              THEN /\ delegatedList' = next
                   /\ link' = [link EXCEPT ![r] = 0]
              ELSE /\ link' = [link EXCEPT ![scan.prev] = next, ![r] = 0]
                   /\ UNCHANGED delegatedList
           /\ scan' = [scan EXCEPT !.next = next]
           /\ asp' = [asp EXCEPT ![r] = a]
           /\ cur' = r
           /\ pc' = CASE a.command = "GET" -> "handled"
                      [] a.command = "GETNEXT" -> "getnext"
                      [] a.command = "SET" -> "pass"
    /\ caller' = "scan"
    /\ UNCHANGED <<queuedList, processingSet, status, closed>>

ScanEnd ==
    /\ pc = "scan"
    /\ scan.next = 0
    /\ pc' = IF processingSet # 0 /\ delegatedList # 0 THEN "main" ELSE "queue"
    /\ scan' = [next |-> 0, prev |-> 0]
    /\ UNCHANGED <<asp, listVars, cur, caller, status, closed>>

QueueEmpty ==
    /\ pc = "queue"
    /\ queuedList = 0
    /\ pc' = "main"
    /\ UNCHANGED <<asp, listVars, cur, caller, status, scan, closed>>

SetMustWait == asp[queuedList].command = "SET" /\ delegatedList # 0

SetStaysQueued ==
    /\ pc = "queue"
    /\ queuedList # 0
    /\ SetMustWait
    /\ processingSet' = queuedList
    /\ pc' = "main"
    /\ UNCHANGED <<asp, link, delegatedList, queuedList, cur, caller, status, scan, closed>>

PopQueued ==
    /\ pc = "queue"
    /\ queuedList # 0
    /\ ~SetMustWait
    /\ cur' = queuedList
    /\ queuedList' = link[queuedList]
    /\ pc' = "handle" /\ caller' = "queue"
    /\ UNCHANGED <<asp, link, delegatedList, processingSet, status, scan, closed>>

-----------------------------------------------------------------------------
(* Subagents.                                                              *)

\* The handler of a delegated binding finishes: netsnmp_handler_check_cache
\* finds the session in the list of the delegated ones.
Complete(r, v) ==
    /\ pc = "main"
    /\ r \in InList(delegatedList)
    /\ asp[r].var[v].delegated
    /\ asp[r].var[v].owner \notin closed
    /\ \E b \in {[asp[r].var[v] EXCEPT !.delegated = FALSE, !.found = f] :
                    f \in {asp[r].command = "GETNEXT", FALSE}}
                \cup {[asp[r].var[v] EXCEPT !.delegated = FALSE,
                         !.status = Failure(asp[r].mode)]} :
         asp' = [asp EXCEPT ![r].var[v] = b]
    /\ UNCHANGED <<listVars, pc, cur, caller, status, scan, closed>>

\* netsnmp_remove_delegated_requests_for_session: asp->requests is an array,
\* but the bindings are followed along `next', which links those of the
\* subtree of the first one only.
MarkedGone(a, s) ==
    IF a.var[1].owner # s THEN a
    ELSE [a EXCEPT !.var = [v \in DOMAIN a.var |->
             IF @[v].owner = s THEN [@[v] EXCEPT !.delegated = FALSE, !.status = "error"]
             ELSE @[v]]]

Close(s) ==
    /\ pc = "main"
    /\ s \notin closed
    /\ closed' = closed \cup {s}
    /\ asp' = [r \in Requests |->
                 IF r \in InList(delegatedList) THEN MarkedGone(asp[r], s) ELSE asp[r]]
    /\ IF \E r \in InList(delegatedList) : asp[r].var[1].owner = s
       THEN ScanFrom(delegatedList)
       ELSE UNCHANGED <<pc, scan>>
    /\ UNCHANGED <<listVars, cur, caller, status>>

-----------------------------------------------------------------------------
Arrival ==
    \E r \in Requests :
        \/ Refuse(r)
        \/ \E command \in Commands[r] : Receive(r, command)

Run ==
    \/ QueueBehindSet \/ QueueSet \/ Begin
    \/ PassGet \/ PassGetNext \/ GetNextLoop \/ PassSet
    \/ HandledNew \/ HandledDelayed
    \/ ScanWaiting \/ ScanDone \/ ScanEnd
    \/ QueueEmpty \/ SetStaysQueued \/ PopQueued

Answers == \E r \in Requests : \E v \in Bindings(r) : Complete(r, v)

Subagent == Answers \/ \E s \in 1 .. Subagents : Close(s)

Next == Arrival \/ Run \/ CheckOutstanding \/ Subagent

\* The thread goes on, the loop of snmpd comes back to the check of the
\* outstanding requests each time it was woken, and a subagent answers, unless
\* its session is closed.
Fairness ==
    /\ WF_vars(Run \/ CheckOutstanding)
    /\ SF_vars(Answers)

Spec == Init /\ [][Next]_vars /\ Fairness

-----------------------------------------------------------------------------
(* Properties.                                                             *)

Stage(r) ==
    CASE asp[r].stage = "failed" -> "answered"
      [] asp[r].stage \notin {"open", "failed"} -> asp[r].stage
      [] asp[r].stage = "open" ->
           IF \/ r \in InList(delegatedList)
              \/ cur = r /\ pc \in {"pass", "getnext", "handled"}
           THEN "active" ELSE "waiting"

Service == INSTANCE AgentService WITH
    stage <- [r \in Requests |-> Stage(r)],
    sets <- {r \in Requests : asp[r].stage = "open" /\ asp[r].command = "SET"}

\* Each request is worked on once and answered once, a SET while no other
\* request is worked on, whatever is delegated, queued behind it or woken by a
\* scan of the outstanding requests.
ServesRequests == Service!ASpec

\* The two lists are linked through the same member, and a session changes
\* lists in the middle of a scan; still a delegated session is found by every
\* scan, exactly the queued ones wait behind a SET, and the queue begins with
\* the SET that waits (the assertions of
\* netsnmp_check_outstanding_agent_requests, snmp_agent.c:2805 and :2816).
ListsRight ==
    /\ Nth(delegatedList)[MaxRequests] = 0 /\ Nth(queuedList)[MaxRequests] = 0
    /\ InList(delegatedList) \cap InList(queuedList) = {}
    /\ \A r \in Requests :
         asp[r].stage = "open" /\ ~(cur = r /\ pc \notin {"main", "scan", "queue"}) =>
             r \in InList(delegatedList) \cup InList(queuedList)
    /\ pc = "main" /\ queuedList # 0 => processingSet # 0
    /\ pc = "queue" /\ queuedList # 0 =>
         /\ processingSet \in {0, queuedList}
         /\ SetMustWait => processingSet = 0

Agreed(a) == \A v \in DOMAIN a.var : a.var[v].status = "ok"

Commits(r) == asp[r].mode # "COMMIT" /\ asp'[r].mode = "COMMIT"

\* A SET is committed only if every binding agreed to every phase before,
\* answers that came late included, and NOERROR is answered only for a SET
\* that was committed.  (Unless a pass both failed and delegated: see
\* AllOrNothing.)
CommitsWhatAllAgreed ==
    [][\A r \in Requests :
         asp[r].stage = "open" /\ asp[r].command = "SET" /\ ~asp[r].mixed =>
         /\ asp[r].mode = "ACTION" /\ asp'[r].mode = "COMMIT" => Agreed(asp[r])
         /\ asp'[r].stage = "answered" => asp[r].mode = "SUCCESS"]_vars

\* snmp_agent.c:3145 says that if either of the first two passes returns an
\* error another pass is made so that what was reserved can be freed: no SET
\* that a binding refused is ever committed.
AllOrNothing ==
    [][\A r \in Requests : Commits(r) => Agreed(asp[r])]_vars

\* A binding that nobody will answer: its subagent has gone.
Orphan(r) ==
    \E v \in Bindings(r) : asp[r].var[v].delegated /\ asp[r].var[v].owner \in closed

\* Every request that was received is answered, the queued ones too, as long
\* as no request is orphaned.
EveryRequestAnswered ==
    \A r \in Requests :
        asp[r].stage = "open" ~> asp[r].stage # "open" \/ \E t \in Requests : Orphan(t)

\* snmp_agent.c:1530 says that all delegated requests are checked when a
\* subagent's session is closed, and given an error if they wait for it.
NoOrphan == \A r \in Requests : ~Orphan(r)

=============================================================================

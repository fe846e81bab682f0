---------------------------- MODULE SyncRequest ----------------------------
(***************************************************************************)
(* One net-snmp session driven by one worker thread of the browser:        *)
(* SnmpRequest::snmpSyncResponse and its callback snmpSynchInput           *)
(* (mibBrowser/snmp_request.cpp) above the session's request list          *)
(* (snmplib/snmp_api.c: _sess_async_send, _sess_read,                      *)
(* _sess_process_packet, snmp_resend_request, snmp_sess_timeout).          *)
(*                                                                         *)
(* Data.  A call of snmpSyncResponse is a number 1..MaxCalls; it is also   *)
(* the reqid of its PDU (snmp_get_next_reqid gives each PDU a new one).    *)
(* The msgid of a transmission is the pair <<call, try>>: every resend     *)
(* takes a new msgid and increments retries.  0 is NULL.                   *)
(*                                                                         *)
(* Network.  `sent' holds every transmission; an answer to any of them may *)
(* arrive at any time, any number of times, or never: loss, duplication,   *)
(* delay and reordering need no action of their own.                       *)
(***************************************************************************)
EXTENDS Integers

CONSTANTS MaxCalls,     \* bound on the calls made on the session
          Retries,      \* session.retries
          Sessions      \* kinds of session the browser may open

ASSUME SyncRequestAssumption ==
    /\ MaxCalls \in Nat \ {0}
    /\ Retries \in Nat
    /\ Sessions \subseteq [v3 : BOOLEAN, stream : BOOLEAN]

VARIABLES pc,           \* where the worker is, see Locations
          call,         \* number of the current (or last) call
          lstate,       \* the synch_state on that call's stack
          callback,     \* call whose lstate is ss->callback_magic, 0: none
          requests,     \* isp->requests, in the order of their call
          sent,         \* every transmission handed to the transport
          sock,         \* the transport's socket is open
          result,       \* what the last call returned
          session       \* version and transport, fixed when it was opened

steps == <<pc, call, lstate, callback, requests, sent, sock, result>>
vars == <<pc, call, lstate, callback, requests, sent, sock, result, session>>

V3 == session.v3            \* SNMPv3: answers match by msgid
Stream == session.stream    \* the transport is a stream (peer "tcp:...")

Calls == 1 .. MaxCalls
Tries == 0 .. Retries + 1
Statuses == {"STAT_SUCCESS", "STAT_ERROR", "STAT_TIMEOUT"}

\* idle: no call is running.  send: callback installed, PDU not yet sent.
\* loop: head of the select loop.  read: inside _sess_read of a stream,
\* which may hold further packets.  over: the caller has given up.
Locations == {"idle", "send", "loop", "read", "over"}

Transmissions == [call : Calls, try : Tries]
RequestEntries == [call : Calls, retries : Tries, due : BOOLEAN]
SynchStates == [waiting : BOOLEAN, reqid : 0 .. MaxCalls,
                status : Statuses, pdu : 0 .. MaxCalls]

TypeOK ==
    /\ pc \in Locations
    /\ call \in 0 .. MaxCalls
    /\ lstate \in SynchStates
    /\ callback \in 0 .. MaxCalls
    /\ requests \subseteq RequestEntries
    /\ sent \subseteq Transmissions
    /\ sock \in BOOLEAN
    /\ result \in [status : Statuses, pdu : 0 .. MaxCalls]

\* memset(&lstate, 0, sizeof(lstate)); STAT_SUCCESS is 0.
NewState == [waiting |-> FALSE, reqid |-> 0, status |-> "STAT_SUCCESS", pdu |-> 0]

Init ==
    /\ pc = "idle"
    /\ call = 0
    /\ lstate = NewState
    /\ callback = 0
    /\ requests = {}
    /\ sent = {}
    /\ sock = TRUE
    /\ result = [status |-> "STAT_SUCCESS", pdu |-> 0]
    /\ session \in Sessions

-----------------------------------------------------------------------------
(* snmpSynchInput: the effect on lstate of each operation.                 *)

OnResponse(s, reqid) ==
    [s EXCEPT !.waiting = FALSE, !.pdu = reqid, !.status = "STAT_SUCCESS"]

\* Mutant: every REPORT keeps the caller waiting.
OnReportWaiting(s, notInTimeWindow) ==
    [s EXCEPT !.waiting = TRUE, !.pdu = 0, !.status = "STAT_ERROR"]

\* A REPORT skips the reqid test; notInTimeWindow keeps the caller waiting.
OnReport(s, notInTimeWindow) ==
    [s EXCEPT !.waiting = notInTimeWindow, !.pdu = 0, !.status = "STAT_ERROR"]

OnOtherPdu(s) == [s EXCEPT !.waiting = FALSE, !.status = "STAT_ERROR"]

OnTimedOut(s) ==
    [s EXCEPT !.waiting = FALSE, !.pdu = 0, !.status = "STAT_TIMEOUT"]

OnDisconnect(s) ==
    [s EXCEPT !.waiting = FALSE, !.pdu = 0, !.status = "STAT_ERROR"]

-----------------------------------------------------------------------------
(* snmpSyncResponse: entry, send, return.                                  *)

Enter ==
    /\ pc = "idle"
    /\ call < MaxCalls
    /\ pc' = "send"
    /\ call' = call + 1
    /\ lstate' = NewState
    /\ callback' = call + 1
    /\ UNCHANGED <<requests, sent, sock, result>>

\* _sess_async_send succeeds: the request joins the session's list.
Send ==
    /\ pc = "send"
    /\ sock
    /\ sent' = sent \cup {[call |-> call, try |-> 0]}
    /\ requests' = requests \cup {[call |-> call, retries |-> 0, due |-> FALSE]}
    /\ lstate' = [lstate EXCEPT !.waiting = TRUE, !.reqid = call]
    /\ pc' = "loop"
    /\ UNCHANGED <<call, callback, sock, result>>

\* Mutant: the caller goes on whatever the status.
ReturnToAnyway(status, pdu) ==
    /\ result' = [status |-> status, pdu |-> pdu]
    /\ pc' = "idle"

\* The caller of snmpSyncResponse goes on only after STAT_SUCCESS: snmpWalk
\* throws on any other status, a GET makes no second call.
ReturnTo(status, pdu) ==
    /\ result' = [status |-> status, pdu |-> pdu]
    /\ pc' = IF status = "STAT_SUCCESS" THEN "idle" ELSE "over"

\* Encoding or transport failure: the PDU is freed and the call returns at
\* once, leaving its callback and its stack frame installed.
SendFails ==
    /\ pc = "send"
    /\ lstate' = [lstate EXCEPT !.status = "STAT_ERROR"]
    /\ ReturnTo("STAT_ERROR", 0)
    /\ UNCHANGED <<call, callback, requests, sent, sock>>

\* while (state->waiting) ends: the answer is handed over, the callback that
\* was installed before the call (none) is restored.
Return ==
    /\ pc = "loop"
    /\ ~lstate.waiting
    /\ callback' = 0
    /\ ReturnTo(lstate.status, lstate.pdu)
    /\ UNCHANGED <<call, lstate, requests, sent, sock>>

\* The branch of the loop for block == 1 (no request listed, or the socket
\* closed) is no action: NeverWaitsForNothing says it is never taken.

\* select fails with an errno other than EINTR.
SelectFails ==
    /\ pc = "loop"
    /\ lstate.waiting
    /\ lstate' = [lstate EXCEPT !.waiting = FALSE, !.status = "STAT_ERROR"]
    /\ UNCHANGED <<pc, call, callback, requests, sent, sock, result>>

-----------------------------------------------------------------------------
(* snmp_resend_request and snmp_sess_timeout.                              *)

\* Mutant: a resend takes a new msgid but is not counted.
ResentUncounted(e, ok) == [e EXCEPT !.due = IF ok THEN FALSE ELSE @]

\* A resend counts as a retry whether or not the packet leaves; only a packet
\* that left moves the deadline.
Resent(e, ok) == [e EXCEPT !.retries = @ + 1, !.due = IF ok THEN FALSE ELSE @]
Retransmission(e) == [call |-> e.call, try |-> e.retries + 1]

\* The monotonic clock passes the expireM of an entry.
Expire ==
    /\ pc \in {"loop", "read"}
    /\ \E e \in requests :
         /\ ~e.due
         /\ requests' = (requests \ {e}) \cup {[e EXCEPT !.due = TRUE]}
    /\ UNCHANGED <<pc, call, lstate, callback, sent, sock, result>>

Exhausted(e) == e.due /\ e.retries >= Retries
Resendable(e) == e.due /\ e.retries < Retries

\* select returned 0.  The loop over the list stops at the first resend that
\* fails (`stop'; 0 when none does).
SessTimeout ==
    /\ pc = "loop"
    /\ lstate.waiting
    /\ sock
    /\ \E e \in requests : e.due
    /\ \E stop \in {0} \cup {e.call : e \in {f \in requests : Resendable(f)}} :
         LET reached == {e \in requests : stop = 0 \/ e.call <= stop}
             gone == {e \in reached : Exhausted(e)}
             again == {e \in reached : Resendable(e)}
         IN  /\ requests' = (requests \ (gone \cup again))
                              \cup {Resent(e, e.call # stop) : e \in again}
             /\ sent' = sent \cup {Retransmission(e) :
                                     e \in {f \in again : f.call # stop}}
             /\ lstate' = IF \E e \in gone : e.call = lstate.reqid
                          THEN OnTimedOut(lstate)
                          ELSE lstate
    /\ UNCHANGED <<pc, call, callback, sock, result>>

-----------------------------------------------------------------------------
(* _sess_read and _sess_process_packet.                                    *)

\* select found the socket readable, or the same read of a stream goes on.
Readable ==
    /\ sock
    /\ \/ pc = "loop" /\ lstate.waiting
       \/ pc = "read"

Reading == Readable /\ pc' = IF Stream THEN "read" ELSE "loop"

Matches(e, m) ==
    /\ e.call = m.call
    /\ V3 => e.retries = m.try

\* Mutant: neither the list nor the callback compares the reqid.
ReadResponseUnchecked(m) ==
    /\ Reading
    /\ requests' = {}
    /\ lstate' = OnResponse(lstate, m.call)
    /\ UNCHANGED <<call, callback, sent, sock, result>>

\* A RESPONSE: delivered if its request is still listed, and dropped by the
\* callback if the request is not the one the caller waits for.
ReadResponse(m) ==
    /\ Reading
    /\ IF \E e \in requests : Matches(e, m) /\ m.call = lstate.reqid
       THEN /\ requests' = {e \in requests : ~Matches(e, m)}
            /\ lstate' = OnResponse(lstate, m.call)
       ELSE UNCHANGED <<requests, lstate>>
    /\ UNCHANGED <<call, callback, sent, sock, result>>

\* A REPORT notInTimeWindow: resend at once while retries <= session.retries
\* (one more than the timer allows), otherwise give up.
ReadNotInTimeWindow(m) ==
    /\ Reading
    /\ \/ /\ \A e \in requests : ~Matches(e, m)
          /\ UNCHANGED <<requests, lstate, sent>>
       \/ \E e \in requests, ok \in BOOLEAN :
            /\ Matches(e, m)
            /\ e.retries <= Retries
            /\ lstate' = OnReport(lstate, TRUE)
            /\ requests' = (requests \ {e}) \cup {Resent(e, ok)}
            /\ sent' = IF ok THEN sent \cup {Retransmission(e)} ELSE sent
       \/ \E e \in requests :
            /\ Matches(e, m)
            /\ e.retries > Retries
            /\ lstate' = OnReport(lstate, FALSE)
            /\ requests' = requests \ {e}
            /\ UNCHANGED sent
    /\ UNCHANGED <<call, callback, sock, result>>

\* Any other REPORT ends the request.
ReadReport(m) ==
    /\ Reading
    /\ IF \E e \in requests : Matches(e, m)
       THEN /\ requests' = {e \in requests : ~Matches(e, m)}
            /\ lstate' = OnReport(lstate, FALSE)
       ELSE UNCHANGED <<requests, lstate>>
    /\ UNCHANGED <<call, callback, sent, sock, result>>

\* A PDU that is no answer (a GET, a TRAP ...): the session's callback gets
\* it, whatever is listed; with the reqid waited for, it fails the call and
\* leaves the request in the list.
ReadOther(reqid) ==
    /\ Reading
    /\ lstate' = IF reqid = lstate.reqid THEN OnOtherPdu(lstate) ELSE lstate
    /\ UNCHANGED <<call, callback, requests, sent, sock, result>>

\* No further packet in what the stream delivered.
EndRead ==
    /\ pc = "read"
    /\ pc' = "loop"
    /\ UNCHANGED <<call, lstate, callback, requests, sent, sock, result>>

\* The peer closes the stream, or sends a packet of illegal length.
Disconnect ==
    /\ Stream
    /\ Readable
    /\ pc' = "loop"
    /\ lstate' = OnDisconnect(lstate)
    /\ sock' = FALSE
    /\ UNCHANGED <<call, callback, requests, sent, result>>

Receive ==
    \/ \E m \in sent : \/ ReadResponse(m)
                       \/ ReadNotInTimeWindow(m)
                       \/ ReadReport(m)
    \/ \E reqid \in Calls : ReadOther(reqid)
    \/ Disconnect

-----------------------------------------------------------------------------
Next ==
    /\ \/ Enter \/ Send \/ SendFails \/ Return
       \/ SelectFails
       \/ Expire \/ SessTimeout
       \/ Receive \/ EndRead
    /\ UNCHANGED session

\* The worker keeps running its loop and the clock keeps running.  Packets may
\* arrive for ever, but not before every poll: again and again select finds
\* none, and then the overdue requests are looked at.
Fairness ==
    /\ WF_steps(Send \/ SendFails)
    /\ WF_steps(Return)
    /\ WF_steps(EndRead)
    /\ WF_steps(Expire)
    /\ SF_steps(SessTimeout)

Spec == Init /\ [][Next]_vars

FairSpec == Spec /\ Fairness

-----------------------------------------------------------------------------
(* Properties.                                                             *)

\* While snmpSyncResponse waits, the request it waits for is on the session's
\* list and the socket is open: an answer or the timer always reaches it, and
\* the loop's block == 1 exit (snmp_request.cpp:82-87), which would leave a
\* callback on a dead stack frame, is never taken.
NeverWaitsForNothing ==
    pc = "loop" /\ lstate.waiting =>
        sock /\ \E e \in requests : e.call = lstate.reqid

\* Late and repeated answers of earlier calls of a walk are never taken for
\* the answer of the current call: success hands over the own answer.
AnswersItsOwnCall ==
    pc = "idle" /\ call > 0 =>
        result = [status |-> "STAT_SUCCESS", pdu |-> call]

\* Whenever the caller may call again the session is as good as new: no
\* callback into a returned stack frame, no request left on the list, the
\* socket open.  The early returns and the PDU of an unexpected type do leave
\* such remains, but only behind a status on which the caller stops.
SessionReusable ==
    pc = "idle" => callback = 0 /\ requests = {} /\ sock

\* The list never holds a request of an earlier call, so a REPORT, which the
\* callback accepts whatever its reqid, cannot fail the wrong call.
OnlyCurrentRequest == \A e \in requests : e.call = call

\* A msgid is never reused: no transmission carries a try its request has not
\* reached, so under SNMPv3 only the answer to the latest transmission counts.
TriesNotAhead ==
    \A t \in sent : \A e \in requests : t.call = e.call => t.try <= e.retries

\* The detailed call implements the promise of SyncCall.
Phase == CASE pc = "idle" -> "ready"
           [] pc = "over" -> "failed"
           [] OTHER -> "pending"

Promise == INSTANCE SyncCall WITH
    MaxNames <- MaxCalls,
    phase <- Phase,
    n <- call,
    outcome <- [status |-> result.status, answer |-> result.pdu]

ImplementsSyncCall == Promise!CSpec

=============================================================================

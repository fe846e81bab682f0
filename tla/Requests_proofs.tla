-------------------------- MODULE Requests_proofs --------------------------
(***************************************************************************)
(* Proofs about a synchronous request, for every number of calls and of    *)
(* retries, for both matching rules (by reqid, by msgid) and for datagrams *)
(* and streams; and about a walk, which makes such requests one after      *)
(* another, for any finite set of OIDs, any place where it starts and any  *)
(* changes of the agent's MIB meanwhile.                                   *)
(***************************************************************************)
EXTENDS SyncRequest, SnmpWalk, Induction

-----------------------------------------------------------------------------
(* The synchronous request.                                                *)

\* Inside a call that has sent its PDU.
Running == pc \in {"loop", "read"}

\* Between two calls nothing of the former call is left.
IdleInv ==
    pc = "idle" =>
        /\ callback = 0
        /\ requests = {}
        /\ sock
        /\ call > 0 => result = [status |-> "STAT_SUCCESS", pdu |-> call]

\* A call about to send starts from a clean session.
SendInv ==
    pc = "send" =>
        /\ requests = {}
        /\ sock
        /\ lstate = NewState
        /\ \A t \in sent : t.call # call

\* While a call runs its lstate, the list and the socket agree.
RunInv ==
    Running =>
        /\ lstate.reqid = call
        /\ lstate.waiting => sock /\ \E e \in requests : e.call = call
        /\ lstate.pdu \in {0, call}
        /\ lstate.status = "STAT_TIMEOUT" => lstate.pdu = 0
        /\ ~lstate.waiting /\ lstate.status = "STAT_SUCCESS" =>
               lstate.pdu = call /\ requests = {} /\ sock

\* At most one request is listed, and it is that of the current call.
ListInv ==
    /\ \A e \in requests : e.call = call
    /\ \A e, f \in requests : e = f

\* Nothing is sent ahead of the calls and the retries counted.
SentInv ==
    /\ \A t \in sent : t.call <= call
    /\ TriesNotAhead

CallInv == pc # "idle" => call > 0

IInv ==
    /\ TypeOK
    /\ CallInv
    /\ IdleInv
    /\ SendInv
    /\ RunInv
    /\ ListInv
    /\ SentInv

-----------------------------------------------------------------------------
\* The invariant holds before the first call.
LEMMA InitIInv == Init => IInv
  BY SyncRequestAssumption
  DEF Init, IInv, TypeOK, CallInv, IdleInv, SendInv, RunInv, Running, ListInv,
      SentInv, TriesNotAhead, NewState, SynchStates, Statuses, Locations

\* Entering and leaving a call keep the invariant.
LEMMA EnterIInv == ASSUME IInv, Enter PROVE IInv'
<1>1. /\ pc = "idle" /\ pc' = "send" /\ call < MaxCalls
      /\ call' = call + 1 /\ lstate' = NewState /\ callback' = call + 1
      /\ requests = {} /\ sock
      /\ UNCHANGED <<requests, sent, sock, result>>
  BY DEF Enter, IInv, IdleInv
<1>2. call \in Nat /\ call' \in 0 .. MaxCalls /\ call' > 0 /\ 0 \in 0 .. MaxCalls
  BY <1>1, SyncRequestAssumption DEF IInv, TypeOK
<1>3. NewState \in SynchStates
  BY <1>2 DEF NewState, SynchStates, Statuses
<1>4. TypeOK'
  BY <1>1, <1>2, <1>3 DEF IInv, TypeOK, Locations
<1>5. \A t \in sent : t.call <= call /\ t.call \in Nat
  BY DEF IInv, SentInv, TypeOK, Transmissions, Calls
<1>6. CallInv' /\ IdleInv' /\ SendInv'
  BY <1>1, <1>2, <1>5 DEF CallInv, IdleInv, SendInv
<1>7. RunInv' /\ ListInv' /\ SentInv'
  BY <1>1, <1>2, <1>5 DEF RunInv, Running, ListInv, SentInv, TriesNotAhead
<1> QED
  BY <1>4, <1>6, <1>7 DEF IInv

\* The call returns with its response or its error.
LEMMA ReturnIInv == ASSUME IInv, Return PROVE IInv'
<1>1. /\ pc = "loop" /\ ~lstate.waiting
      /\ pc' = IF lstate.status = "STAT_SUCCESS" THEN "idle" ELSE "over"
      /\ result' = [status |-> lstate.status, pdu |-> lstate.pdu]
      /\ callback' = 0
      /\ UNCHANGED <<call, lstate, requests, sent, sock>>
  BY DEF Return, ReturnTo
<1>2. /\ lstate.status \in Statuses /\ lstate.pdu \in 0 .. MaxCalls
      /\ 0 \in 0 .. MaxCalls
  BY SyncRequestAssumption DEF IInv, TypeOK, SynchStates
<1>3. TypeOK'
  BY <1>1, <1>2 DEF IInv, TypeOK, Locations
<1>4. IdleInv'
  BY <1>1 DEF IInv, RunInv, Running, IdleInv
<1>5. CallInv' /\ SendInv' /\ RunInv'
  BY <1>1 DEF IInv, CallInv, SendInv, RunInv, Running
<1>6. ListInv' /\ SentInv'
  BY <1>1 DEF IInv, ListInv, SentInv, TriesNotAhead
<1> QED
  BY <1>3, <1>4, <1>5, <1>6 DEF IInv

\* A call whose first message cannot be sent.
LEMMA SendFailsIInv == ASSUME IInv, SendFails PROVE IInv'
<1>1. /\ pc = "send" /\ pc' = "over"
      /\ lstate' = [lstate EXCEPT !.status = "STAT_ERROR"]
      /\ result' = [status |-> "STAT_ERROR", pdu |-> 0]
      /\ UNCHANGED <<call, callback, requests, sent, sock>>
  BY DEF SendFails, ReturnTo
<1>2. TypeOK'
  BY <1>1, SyncRequestAssumption DEF IInv, TypeOK, SynchStates, Statuses, Locations
<1>3. CallInv' /\ IdleInv' /\ SendInv' /\ RunInv'
  BY <1>1 DEF IInv, CallInv, IdleInv, SendInv, RunInv, Running
<1>4. ListInv' /\ SentInv'
  BY <1>1 DEF IInv, ListInv, SentInv, TriesNotAhead
<1> QED
  BY <1>2, <1>3, <1>4 DEF IInv

\* select() fails.
LEMMA SelectFailsIInv == ASSUME IInv, SelectFails PROVE IInv'
<1>1. /\ pc = "loop"
      /\ lstate' = [lstate EXCEPT !.waiting = FALSE, !.status = "STAT_ERROR"]
      /\ UNCHANGED <<pc, call, callback, requests, sent, sock, result>>
  BY DEF SelectFails
<1>2. TypeOK'
  BY <1>1 DEF IInv, TypeOK, SynchStates, Statuses
<1>3. CallInv' /\ IdleInv' /\ SendInv'
  BY <1>1 DEF IInv, CallInv, IdleInv, SendInv
<1>4. RunInv'
  BY <1>1 DEF IInv, TypeOK, SynchStates, RunInv, Running
<1>5. ListInv' /\ SentInv'
  BY <1>1 DEF IInv, ListInv, SentInv, TriesNotAhead
<1> QED
  BY <1>2, <1>3, <1>4, <1>5 DEF IInv

\* One message has been dealt with.
LEMMA EndReadIInv == IInv /\ EndRead => IInv'
  BY DEF EndRead, IInv, TypeOK, CallInv, IdleInv, SendInv, RunInv, Running,
      ListInv, SentInv, TriesNotAhead, Locations

\* The state a callback leaves is well typed.
LEMMA CallbackState ==
    ASSUME NEW s \in SynchStates, NEW w \in BOOLEAN, NEW p \in 0 .. MaxCalls,
           NEW st \in Statuses
    PROVE  LET left == [s EXCEPT !.waiting = w, !.pdu = p, !.status = st]
           IN  /\ left \in SynchStates
               /\ left.waiting = w /\ left.pdu = p /\ left.status = st
               /\ left.reqid = s.reqid
  BY DEF SynchStates

\* No call.
LEMMA ZeroIsNull == 0 \in 0 .. MaxCalls
  BY SyncRequestAssumption

\* What a report may leave behind.
LEMMA OnReportState ==
    ASSUME NEW s \in SynchStates, NEW w \in BOOLEAN
    PROVE  /\ OnReport(s, w) \in SynchStates
           /\ OnReport(s, w).waiting = w /\ OnReport(s, w).pdu = 0
           /\ OnReport(s, w).status = "STAT_ERROR"
           /\ OnReport(s, w).reqid = s.reqid
  BY ZeroIsNull DEF OnReport, SynchStates, Statuses

\* What a timeout may leave behind.
LEMMA OnTimedOutState ==
    ASSUME NEW s \in SynchStates
    PROVE  /\ OnTimedOut(s) \in SynchStates
           /\ OnTimedOut(s).waiting = FALSE /\ OnTimedOut(s).pdu = 0
           /\ OnTimedOut(s).status = "STAT_TIMEOUT"
           /\ OnTimedOut(s).reqid = s.reqid
  BY ZeroIsNull DEF OnTimedOut, SynchStates, Statuses

\* The peer closes the stream.
LEMMA DisconnectIInv == IInv /\ Disconnect => IInv'
<1> SUFFICES ASSUME IInv, Disconnect PROVE IInv'
  OBVIOUS
<1>1. /\ pc' = "loop" /\ pc \in {"loop", "read"}
      /\ lstate' = [lstate EXCEPT !.waiting = FALSE, !.pdu = 0,
                                  !.status = "STAT_ERROR"]
      /\ sock' = FALSE
      /\ UNCHANGED <<call, callback, requests, sent, result>>
  BY DEF Disconnect, Readable, OnDisconnect
<1>2. TypeOK'
  BY <1>1, ZeroIsNull, CallbackState DEF IInv, TypeOK, Statuses, Locations
<1>3. CallInv' /\ IdleInv' /\ SendInv'
  BY <1>1 DEF IInv, CallInv, IdleInv, SendInv
<1>4. RunInv'
  BY <1>1 DEF IInv, TypeOK, SynchStates, RunInv, Running
<1>5. ListInv' /\ SentInv'
  BY <1>1 DEF IInv, ListInv, SentInv, TriesNotAhead
<1> QED
  BY <1>2, <1>3, <1>4, <1>5 DEF IInv

\* A message is sent for the first time.
LEMMA SendIInv == IInv /\ Send => IInv'
<1> DEFINE e0 == [call |-> call, retries |-> 0, due |-> FALSE]
           t0 == [call |-> call, try |-> 0]
<1> SUFFICES ASSUME IInv, Send PROVE IInv'
  OBVIOUS
<1>1. /\ pc = "send" /\ pc' = "loop"
      /\ requests = {} /\ requests' = {e0}
      /\ sent' = sent \cup {t0}
      /\ lstate = NewState
      /\ lstate' = [lstate EXCEPT !.waiting = TRUE, !.reqid = call]
      /\ sock
      /\ UNCHANGED <<call, callback, sock, result>>
  BY DEF Send, IInv, SendInv
<1>2. call \in Calls /\ 0 \in Tries
  BY <1>1, SyncRequestAssumption DEF IInv, TypeOK, CallInv, Calls, Tries
<1>3. e0 \in RequestEntries /\ t0 \in Transmissions
  BY <1>2 DEF RequestEntries, Transmissions
<1>4. TypeOK'
  BY <1>1, <1>2, <1>3 DEF IInv, TypeOK, SynchStates, Statuses, Locations, Calls
<1>5. CallInv' /\ IdleInv' /\ SendInv'
  BY <1>1 DEF IInv, CallInv, IdleInv, SendInv
<1>6. RunInv'
  <2>1. /\ lstate' = [waiting |-> TRUE, reqid |-> call,
                      status |-> "STAT_SUCCESS", pdu |-> 0]
    BY <1>1 DEF NewState
  <2>2. e0 \in requests' /\ e0.call = call
    BY <1>1
  <2>3. /\ lstate'.waiting = TRUE /\ lstate'.reqid = call /\ lstate'.pdu = 0
        /\ lstate'.status = "STAT_SUCCESS"
    BY <2>1
  <2> QED
    BY <1>1, <2>2, <2>3 DEF RunInv, Running
<1>7. ListInv'
  BY <1>1 DEF ListInv
<1>8. SentInv'
  <2>1. \A t \in sent : t.call # call /\ t.call <= call
    BY <1>1 DEF IInv, SendInv, SentInv
  <2> QED
    BY <1>1, <1>2, <2>1 DEF SentInv, TriesNotAhead, Calls
<1> QED
  BY <1>4, <1>5, <1>6, <1>7, <1>8 DEF IInv

\* One step of the clock: an entry becomes due, nothing else changes.
LEMMA ExpireIInv == IInv /\ Expire => IInv'
<1> SUFFICES ASSUME IInv, Expire PROVE IInv'
  OBVIOUS
<1>1. PICK e \in requests :
        requests' = (requests \ {e}) \cup {[e EXCEPT !.due = TRUE]}
  BY DEF Expire
<1>2. UNCHANGED <<pc, call, lstate, callback, sent, sock, result>> /\ Running
  BY DEF Expire, Running
<1> DEFINE d == [e EXCEPT !.due = TRUE]
<1>3. requests = {e} /\ requests' = {d}
  BY <1>1 DEF IInv, ListInv
<1>4. d \in RequestEntries /\ d.call = e.call /\ d.retries = e.retries
  BY <1>1 DEF IInv, TypeOK, RequestEntries
<1>5. TypeOK'
  BY <1>2, <1>3, <1>4 DEF IInv, TypeOK
<1>6. CallInv' /\ IdleInv' /\ SendInv'
  BY <1>2 DEF IInv, CallInv, IdleInv, SendInv, Running
<1>7. RunInv'
  BY <1>2, <1>3, <1>4 DEF IInv, RunInv, Running
<1>8. ListInv' /\ SentInv'
  BY <1>2, <1>3, <1>4 DEF IInv, ListInv, SentInv, TriesNotAhead
<1> QED
  BY <1>5, <1>6, <1>7, <1>8 DEF IInv

-----------------------------------------------------------------------------
\* What a read of a packet leaves alone.
LEMMA ReadingFacts ==
    ASSUME IInv, Reading
    PROVE  /\ pc \in {"loop", "read"} /\ pc' \in {"loop", "read"}
           /\ sock /\ Running
  BY DEF Reading, Readable, Running

\* Two facts about a step that removes the only request or leaves the list:
\* the parts of the invariant about the list and the transmissions.
LEMMA ShrinkKeeps ==
    ASSUME IInv, requests' \subseteq requests, UNCHANGED <<call, sent>>
    PROVE  ListInv' /\ SentInv'
  BY DEF IInv, ListInv, SentInv, TriesNotAhead

\* A running call that runs on need only re-establish RunInv.
LEMMA RunningKeeps ==
    ASSUME pc' \in {"loop", "read"}, IInv, Running, call' = call
    PROVE  CallInv' /\ IdleInv' /\ SendInv'
  BY DEF IInv, CallInv, IdleInv, SendInv, Running

\* A message that no request waits for.
LEMMA ReadOtherIInv ==
    ASSUME NEW reqid \in Calls, IInv, ReadOther(reqid) PROVE IInv'
<1>1. /\ lstate' = lstate \/ lstate' = [lstate EXCEPT !.waiting = FALSE,
                                                      !.status = "STAT_ERROR"]
      /\ UNCHANGED <<call, callback, requests, sent, sock, result>>
      /\ Reading
  BY DEF ReadOther, OnOtherPdu
<1>2. TypeOK'
  BY <1>1, ReadingFacts DEF IInv, TypeOK, SynchStates, Statuses, Locations
<1>3. CallInv' /\ IdleInv' /\ SendInv' /\ ListInv' /\ SentInv'
  BY <1>1, ReadingFacts, RunningKeeps, ShrinkKeeps
<1>4. RunInv'
  BY <1>1, ReadingFacts DEF IInv, TypeOK, SynchStates, RunInv
<1> QED
  BY <1>2, <1>3, <1>4 DEF IInv

\* The response, or one to an earlier call.
LEMMA ReadResponseIInv ==
    ASSUME NEW m \in sent, IInv, ReadResponse(m) PROVE IInv'
<1>1. Reading /\ UNCHANGED <<call, callback, sent, sock, result>>
  BY DEF ReadResponse
<1>2. /\ requests' = {e \in requests : ~Matches(e, m)}
      /\ lstate' = [lstate EXCEPT !.waiting = FALSE, !.pdu = m.call,
                                  !.status = "STAT_SUCCESS"]
      /\ m.call = lstate.reqid
      /\ \E e \in requests : Matches(e, m)
      \/ UNCHANGED <<requests, lstate>>
  BY DEF ReadResponse, OnResponse
<1>3. requests' \subseteq requests /\ m.call \in 0 .. MaxCalls
  BY <1>2 DEF IInv, TypeOK, Transmissions, Calls
<1>4. TypeOK'
  <2>1. [lstate EXCEPT !.waiting = FALSE, !.pdu = m.call, !.status = "STAT_SUCCESS"] \in SynchStates
    BY <1>3, ZeroIsNull, CallbackState DEF IInv, TypeOK, Statuses
  <2>2. lstate' \in SynchStates
    BY <1>2, <2>1 DEF IInv, TypeOK
  <2> QED
    BY <1>1, <1>3, <2>2, ReadingFacts DEF IInv, TypeOK, Locations
<1>5. CallInv' /\ IdleInv' /\ SendInv' /\ ListInv' /\ SentInv'
  BY <1>1, <1>3, ReadingFacts, RunningKeeps, ShrinkKeeps
<1>6. RunInv'
  <2>1. CASE UNCHANGED <<requests, lstate>>
    BY <1>1, <2>1, ReadingFacts DEF IInv, RunInv
  <2>2. CASE ~ UNCHANGED <<requests, lstate>>
    <3>1. requests' = {}
      BY <1>2, <2>2 DEF IInv, ListInv
    <3>2. m.call = call
      BY <1>2, <2>2, ReadingFacts, <1>1 DEF IInv, RunInv
    <3> QED
      BY <1>1, <1>2, <2>2, <3>1, <3>2, ReadingFacts
      DEF IInv, TypeOK, SynchStates, RunInv
  <2> QED
    BY <2>1, <2>2
<1> QED
  BY <1>4, <1>5, <1>6 DEF IInv

\* A report about a message of version 3.
LEMMA ReadReportIInv ==
    ASSUME NEW m \in sent, IInv, ReadReport(m) PROVE IInv'
<1>1. Reading /\ UNCHANGED <<call, callback, sent, sock, result>>
  BY DEF ReadReport
<1>2. /\ requests' = {e \in requests : ~Matches(e, m)}
      /\ lstate' = [lstate EXCEPT !.waiting = FALSE, !.pdu = 0,
                                  !.status = "STAT_ERROR"]
      \/ UNCHANGED <<requests, lstate>>
  BY DEF ReadReport, OnReport
<1>3. requests' \subseteq requests
  BY <1>2
<1>4. TypeOK'
  <2>1. [lstate EXCEPT !.waiting = FALSE, !.pdu = 0, !.status = "STAT_ERROR"] \in SynchStates
    BY <1>3, ZeroIsNull, CallbackState DEF IInv, TypeOK, Statuses
  <2>2. lstate' \in SynchStates
    BY <1>2, <2>1 DEF IInv, TypeOK
  <2> QED
    BY <1>1, <1>3, <2>2, ReadingFacts DEF IInv, TypeOK, Locations
<1>5. CallInv' /\ IdleInv' /\ SendInv' /\ ListInv' /\ SentInv'
  BY <1>1, <1>3, ReadingFacts, RunningKeeps, ShrinkKeeps
<1>6. RunInv'
  BY <1>1, <1>2, ReadingFacts DEF IInv, TypeOK, SynchStates, RunInv
<1> QED
  BY <1>4, <1>5, <1>6 DEF IInv

-----------------------------------------------------------------------------
\* The only request listed is replaced by its resent form.
LEMMA ResendKeeps ==
    ASSUME IInv, Running, call' = call,
           NEW e \in requests, e.retries <= Retries, NEW ok \in BOOLEAN,
           requests' = {Resent(e, ok)},
           sent' = IF ok THEN sent \cup {Retransmission(e)} ELSE sent
    PROVE  /\ requests' \subseteq RequestEntries
           /\ sent' \subseteq Transmissions
           /\ \E f \in requests' : f.call = call
           /\ ListInv' /\ SentInv'
<1> DEFINE r == Resent(e, ok)
           t0 == Retransmission(e)
<1>1. /\ e.call = call /\ e.call \in Calls /\ e.due \in BOOLEAN
      /\ e.retries \in Tries /\ e.retries + 1 \in Tries
      /\ e \in RequestEntries
  BY SyncRequestAssumption DEF IInv, TypeOK, ListInv, RequestEntries, Tries
<1>2. /\ r \in RequestEntries
      /\ r.call = call /\ r.retries = e.retries + 1
  BY <1>1 DEF Resent, RequestEntries
<1>3. t0 \in Transmissions /\ t0.call = call /\ t0.try = e.retries + 1
  BY <1>1 DEF Retransmission, Transmissions
<1>4. requests' = {r} /\ sent' \subseteq sent \cup {t0}
  OBVIOUS
<1>5. requests' \subseteq RequestEntries /\ sent' \subseteq Transmissions
  BY <1>2, <1>3, <1>4 DEF IInv, TypeOK
<1>6. ListInv' /\ \E f \in requests' : f.call = call
  BY <1>2, <1>4 DEF ListInv
<1>7. SentInv'
  <2>1. call \in 0 .. MaxCalls
    BY DEF IInv, TypeOK
  <2>2. \A t \in sent' : t.call <= call'
    BY <1>3, <1>4, <2>1, SyncRequestAssumption DEF IInv, SentInv
  <2>3. \A t \in sent : t.try \in Tries
    BY DEF IInv, TypeOK, Transmissions
  <2>4. \A t \in sent' : t.call = call => t.try <= e.retries + 1
    BY <1>1, <1>3, <1>4, <2>3, SyncRequestAssumption
    DEF IInv, SentInv, TriesNotAhead, Tries
  <2> QED
    BY <1>2, <1>4, <2>2, <2>4 DEF SentInv, TriesNotAhead
<1> QED
  BY <1>5, <1>6, <1>7

\* A report that asks for the message again with the right time.
LEMMA ReadNotInTimeWindowIInv ==
    ASSUME NEW m \in sent, IInv, ReadNotInTimeWindow(m) PROVE IInv'
<1>1. Reading /\ UNCHANGED <<call, callback, sock, result>>
  BY DEF ReadNotInTimeWindow
<1>2. CallInv' /\ IdleInv' /\ SendInv'
  BY <1>1, ReadingFacts, RunningKeeps
<1> USE <1>1, <1>2, ReadingFacts
<1>3. CASE UNCHANGED <<requests, lstate, sent>>
  <2>1. TypeOK' /\ RunInv'
    BY <1>3 DEF IInv, TypeOK, RunInv, Locations
  <2> QED
    BY <2>1, <1>3, ShrinkKeeps DEF IInv
<1>4. ASSUME NEW e \in requests, NEW ok \in BOOLEAN,
             e.retries <= Retries,
             lstate' = OnReport(lstate, TRUE),
             requests' = (requests \ {e}) \cup {Resent(e, ok)},
             sent' = IF ok THEN sent \cup {Retransmission(e)} ELSE sent
      PROVE  IInv'
  <2>1. requests' = {Resent(e, ok)}
    BY <1>4 DEF IInv, ListInv
  <2>2. /\ requests' \subseteq RequestEntries
        /\ sent' \subseteq Transmissions
        /\ \E f \in requests' : f.call = call
        /\ ListInv' /\ SentInv'
    BY <1>4, <2>1, ResendKeeps
  <2>3. /\ lstate' \in SynchStates /\ lstate'.waiting /\ lstate'.pdu = 0
        /\ lstate'.status = "STAT_ERROR" /\ lstate'.reqid = lstate.reqid
    BY <1>4, OnReportState DEF IInv, TypeOK
  <2>4. TypeOK'
    BY <2>2, <2>3 DEF IInv, TypeOK, Locations
  <2>5. RunInv'
    BY <2>2, <2>3 DEF IInv, RunInv
  <2> QED
    BY <2>2, <2>4, <2>5 DEF IInv
<1>5. ASSUME NEW e \in requests, lstate' = OnReport(lstate, FALSE),
             requests' = requests \ {e}, sent' = sent
      PROVE  IInv'
  <2>1. /\ lstate' \in SynchStates /\ ~lstate'.waiting /\ lstate'.pdu = 0
        /\ lstate'.status = "STAT_ERROR" /\ lstate'.reqid = lstate.reqid
    BY <1>5, OnReportState DEF IInv, TypeOK
  <2>2. TypeOK' /\ RunInv'
    BY <1>5, <2>1 DEF IInv, TypeOK, RunInv, Locations
  <2> QED
    BY <1>5, <2>2, ShrinkKeeps DEF IInv
<1> QED
  BY <1>3, <1>4, <1>5 DEF ReadNotInTimeWindow

\* The time of a request is over.
LEMMA SessTimeoutIInv ==
    ASSUME IInv, SessTimeout PROVE IInv'
<1>1. PICK stop \in {0} \cup {e.call : e \in {f \in requests : Resendable(f)}} :
         LET reached == {e \in requests : stop = 0 \/ e.call <= stop}
             gone == {e \in reached : Exhausted(e)}
             again == {e \in reached : Resendable(e)}
         IN  /\ requests' = (requests \ (gone \cup again))
                              \cup {Resent(e, e.call # stop) : e \in again}
             /\ sent' = sent \cup {Retransmission(e) :
                                     e \in {f \in again : f.call # stop}}
             /\ lstate' = IF \E e \in gone : e.call = lstate.reqid
                          THEN OnTimedOut(lstate)
                          ELSE lstate
  BY DEF SessTimeout
<1>2. /\ pc = "loop" /\ lstate.waiting /\ sock
      /\ UNCHANGED <<pc, call, callback, sock, result>> /\ Running
  BY DEF SessTimeout, Running
<1>3. PICK e \in requests : e.due
  BY DEF SessTimeout
<1>4. /\ requests = {e} /\ e.call = call /\ call = lstate.reqid
      /\ e \in RequestEntries /\ e.retries \in Nat /\ call \in Nat
  BY <1>2, <1>3, SyncRequestAssumption
  DEF IInv, ListInv, RunInv, TypeOK, RequestEntries, Tries
<1>5. CallInv' /\ IdleInv' /\ SendInv'
  BY <1>2, RunningKeeps
<1>6. stop = 0 \/ stop = call
  BY <1>1, <1>4
<1>7. CASE e.retries >= Retries
  <2>1. Exhausted(e) /\ ~Resendable(e)
    BY <1>3, <1>4, <1>7, SyncRequestAssumption DEF Exhausted, Resendable
  <2>2. requests' = {} /\ sent' = sent /\ lstate' = OnTimedOut(lstate)
    BY <1>1, <1>4, <1>6, <2>1
  <2>3. /\ lstate' \in SynchStates /\ ~lstate'.waiting /\ lstate'.pdu = 0
        /\ lstate'.status = "STAT_TIMEOUT" /\ lstate'.reqid = lstate.reqid
    BY <2>2, OnTimedOutState DEF IInv, TypeOK
  <2>4. TypeOK' /\ RunInv'
    BY <1>2, <1>4, <2>2, <2>3 DEF IInv, TypeOK, RunInv
  <2> QED
    BY <1>2, <1>5, <2>2, <2>4, ShrinkKeeps DEF IInv
<1>8. CASE ~(e.retries >= Retries)
  <2> DEFINE ok == e.call # stop
  <2>1. Resendable(e) /\ ~Exhausted(e) /\ e.retries <= Retries
    BY <1>3, <1>4, <1>8, SyncRequestAssumption DEF Exhausted, Resendable
  <2>2. /\ requests' = {Resent(e, ok)} /\ lstate' = lstate
        /\ sent' = IF ok THEN sent \cup {Retransmission(e)} ELSE sent
    BY <1>1, <1>4, <1>6, <2>1
  <2>3. /\ requests' \subseteq RequestEntries
        /\ sent' \subseteq Transmissions
        /\ \E f \in requests' : f.call = call
        /\ ListInv' /\ SentInv'
    <3>1. ok \in BOOLEAN
      OBVIOUS
    <3> HIDE DEF ok
    <3> QED
      BY <1>2, <1>3, <2>1, <2>2, <3>1, ResendKeeps
  <2>4. TypeOK' /\ RunInv'
    BY <1>2, <1>4, <2>2, <2>3 DEF IInv, TypeOK, RunInv
  <2> QED
    BY <1>5, <2>3, <2>4 DEF IInv
<1> QED
  BY <1>7, <1>8

-----------------------------------------------------------------------------
\* Nothing happens.
LEMMA StutterIInv == ASSUME IInv, UNCHANGED vars PROVE IInv'
  BY DEF vars, IInv, TypeOK, CallInv, IdleInv, SendInv, RunInv, Running, ListInv,
     SentInv, TriesNotAhead

\* Every step preserves the invariant.
LEMMA NextIInv == ASSUME IInv, [Next]_vars PROVE IInv'
<1>1. CASE Enter
  BY <1>1, EnterIInv
<1>2. CASE Send
  BY <1>2, SendIInv
<1>3. CASE SendFails
  BY <1>3, SendFailsIInv
<1>4. CASE Return
  BY <1>4, ReturnIInv
<1>5. CASE SelectFails
  BY <1>5, SelectFailsIInv
<1>6. CASE Expire
  BY <1>6, ExpireIInv
<1>7. CASE SessTimeout
  BY <1>7, SessTimeoutIInv
<1>8. CASE Receive
  BY <1>8, ReadResponseIInv, ReadNotInTimeWindowIInv, ReadReportIInv,
     ReadOtherIInv, DisconnectIInv DEF Receive
<1>9. CASE EndRead
  BY <1>9, EndReadIInv
<1>10. CASE UNCHANGED vars
  BY <1>10, StutterIInv
<1> QED
  BY <1>1, <1>2, <1>3, <1>4, <1>5, <1>6, <1>7, <1>8, <1>9, <1>10 DEF Next

\* The inductive invariant holds in every reachable state.
THEOREM Invariance == Spec => []IInv
<1>1. Init => IInv
  BY InitIInv
<1>2. IInv /\ [Next]_vars => IInv'
  BY NextIInv
<1> QED
  BY <1>1, <1>2, PTL DEF Spec

\* Every variable keeps its type: in particular no request is ever resent more
\* than Retries + 1 times.
THEOREM TypeCorrect == Spec => []TypeOK
<1>1. IInv => TypeOK
  BY DEF IInv
<1> QED
  BY <1>1, Invariance, PTL

\* snmpSyncResponse never blocks with nothing to wake it.
THEOREM WaitIsBacked == Spec => []NeverWaitsForNothing
<1>1. IInv => NeverWaitsForNothing
  BY DEF IInv, RunInv, Running, NeverWaitsForNothing
<1> QED
  BY <1>1, Invariance, PTL

\* A session the caller may use again carries nothing of an earlier call.
THEOREM SessionStaysReusable == Spec => []SessionReusable
<1>1. IInv => SessionReusable
  BY DEF IInv, IdleInv, SessionReusable
<1> QED
  BY <1>1, Invariance, PTL

\* A successful call hands over the answer to its own request.
THEOREM OwnAnswer == Spec => []AnswersItsOwnCall
<1>1. IInv => AnswersItsOwnCall
  BY DEF IInv, IdleInv, AnswersItsOwnCall
<1> QED
  BY <1>1, Invariance, PTL

\* No request of an earlier call is ever left on the list.
THEOREM ListIsCurrent == Spec => []OnlyCurrentRequest
<1>1. IInv => OnlyCurrentRequest
  BY DEF IInv, ListInv, OnlyCurrentRequest
<1> QED
  BY <1>1, Invariance, PTL

\* No msgid is used twice, and none before its resend is counted.
THEOREM TriesCounted == Spec => []TriesNotAhead
<1>1. IInv => TriesNotAhead
  BY DEF IInv, SentInv
<1> QED
  BY <1>1, Invariance, PTL

-----------------------------------------------------------------------------
(* snmpSyncResponse implements the promise of SyncCall (its safety part).  *)

\* Steps of the session that are steps of the promise.
LEMMA EnterBegins == IInv /\ Enter => Promise!Begin
  BY SyncRequestAssumption DEF IInv, TypeOK, Enter, Promise!Begin, Phase

\* ... a return with what the call was promised,
LEMMA ReturnFinishes == IInv /\ Return => Promise!Finish
<1> SUFFICES ASSUME IInv, Return PROVE Promise!Finish
  OBVIOUS
<1>1. /\ pc = "loop" /\ ~lstate.waiting /\ call' = call
      /\ result' = [status |-> lstate.status, pdu |-> lstate.pdu]
      /\ pc' = IF lstate.status = "STAT_SUCCESS" THEN "idle" ELSE "over"
  BY DEF Return, ReturnTo
<1>2. /\ lstate.status \in Statuses /\ lstate.pdu \in {0, call}
      /\ lstate.status = "STAT_TIMEOUT" => lstate.pdu = 0
      /\ lstate.status = "STAT_SUCCESS" => lstate.pdu = call
  BY <1>1 DEF IInv, TypeOK, RunInv, Running, SynchStates
<1>3. [status |-> lstate.status, answer |-> lstate.pdu] \in Promise!Outcomes(call)
  BY <1>2 DEF Promise!Outcomes, Promise!NoAnswer, Statuses
<1>4. Phase = "pending"
      /\ Phase' = IF lstate.status = "STAT_SUCCESS" THEN "ready" ELSE "failed"
  BY <1>1 DEF Phase
<1> QED
  BY <1>1, <1>3, <1>4 DEF Promise!Finish

\* ... and one without.
LEMMA SendFailsFinishes == IInv /\ SendFails => Promise!Finish
<1> SUFFICES ASSUME IInv, SendFails PROVE Promise!Finish
  OBVIOUS
<1>1. /\ pc = "send" /\ pc' = "over" /\ call' = call
      /\ result' = [status |-> "STAT_ERROR", pdu |-> 0]
  BY DEF SendFails, ReturnTo
<1>2. [status |-> "STAT_ERROR", answer |-> 0] \in Promise!Outcomes(call)
  BY DEF Promise!Outcomes, Promise!NoAnswer
<1>3. Phase = "pending" /\ Phase' = "failed"
  BY <1>1 DEF Phase
<1> QED
  BY <1>1, <1>2, <1>3 DEF Promise!Finish

\* Every other step happens inside a call and is invisible to its caller.
LEMMA InnerSteps ==
    ASSUME IInv,
           Send \/ SelectFails \/ Expire \/ SessTimeout \/ Receive \/ EndRead
    PROVE  UNCHANGED Promise!cvars
<1>1. /\ pc \in {"send", "loop", "read"} /\ pc' \in {"loop", "read"}
      /\ UNCHANGED <<call, result>>
  BY DEF Send, SelectFails, Expire, SessTimeout, Receive, EndRead, ReadResponse,
         ReadNotInTimeWindow, ReadReport, ReadOther, Disconnect, Reading, Readable
<1>2. Phase = "pending" /\ Phase' = "pending"
  BY <1>1 DEF Phase
<1> QED
  BY <1>1, <1>2 DEF Promise!cvars

\* Every step of the session is a step of the promise, or hidden by it.
LEMMA StepRefines == ASSUME IInv, [Next]_vars PROVE [Promise!CNext]_(Promise!cvars)
<1>1. CASE Enter
  BY <1>1, EnterBegins DEF Promise!CNext
<1>2. CASE Return
  BY <1>2, ReturnFinishes DEF Promise!CNext
<1>3. CASE SendFails
  BY <1>3, SendFailsFinishes DEF Promise!CNext
<1>4. CASE Send \/ SelectFails \/ Expire \/ SessTimeout \/ Receive \/ EndRead
  BY <1>4, InnerSteps
<1>5. CASE UNCHANGED vars
  BY <1>5 DEF vars, Promise!cvars, Phase
<1> QED
  BY <1>1, <1>2, <1>3, <1>4, <1>5 DEF Next

\* Calls follow one another, each returns an outcome of its own, and none
\* follows a failed one: the promise snmpWalk and the GET handlers rely on.
THEOREM Refinement ==
    Spec => Promise!CInit /\ [][Promise!CNext]_(Promise!cvars)
<1>1. Init => Promise!CInit
  BY DEF Init, Promise!CInit, Promise!NoAnswer, Phase
<1>2. IInv /\ [Next]_vars => [Promise!CNext]_(Promise!cvars)
  BY StepRefines
<1> QED
  BY <1>1, <1>2, Invariance, PTL DEF Spec

-----------------------------------------------------------------------------
(* The order of OIDs.                                                      *)

OID == Seq(Nat)

\* Place k decides that a comes before b.
Decides(k, a, b) ==
    /\ k \in 1 .. Len(b)
    /\ \A l \in 1 .. k - 1 : l <= Len(a) /\ a[l] = b[l]
    /\ k = Len(a) + 1 \/ (k <= Len(a) /\ a[k] < b[k])

\* A prefix, place by place.
LEMMA PrefixIs ==
    ASSUME NEW a \in OID, NEW b \in OID
    PROVE  IsPrefix(a, b) <=> Len(a) <= Len(b) /\ \A l \in 1 .. Len(a) : a[l] = b[l]
<1>1. CASE Len(a) <= Len(b)
  <2>1. /\ SubSeq(a, 1, Len(a)) \in Seq(Nat) /\ SubSeq(b, 1, Len(a)) \in Seq(Nat)
        /\ Len(SubSeq(a, 1, Len(a))) = Len(a) /\ Len(SubSeq(b, 1, Len(a))) = Len(a)
        /\ \A l \in 1 .. Len(a) : /\ SubSeq(a, 1, Len(a))[l] = a[l]
                                  /\ SubSeq(b, 1, Len(a))[l] = b[l]
    BY <1>1 DEF OID
  <2> DEFINE x == SubSeq(a, 1, Len(a))
             y == SubSeq(b, 1, Len(a))
  <2>2. (\A l \in 1 .. Len(a) : x[l] = y[l]) => x = y
    <3> HIDE DEF x, y
    <3> SUFFICES ASSUME x \in Seq(Nat), y \in Seq(Nat), Len(x) = Len(a), Len(y) = Len(a),
                        \A l \in 1 .. Len(a) : x[l] = y[l]
                 PROVE  x = y
      BY <2>1 DEF x, y
    <3> QED  OBVIOUS
  <2> QED  BY <1>1, <2>1, <2>2 DEF IsPrefix
<1>2. CASE ~ (Len(a) <= Len(b))
  BY <1>2 DEF IsPrefix
<1> QED  BY <1>1, <1>2

\* The same for what is before place k.
LEMMA BeforeIs ==
    ASSUME NEW a \in OID, NEW b \in OID, NEW k \in 1 .. Len(a), k <= Len(b)
    PROVE  SubSeq(a, 1, k - 1) = SubSeq(b, 1, k - 1) <=> \A l \in 1 .. k - 1 : a[l] = b[l]
<1> DEFINE x == SubSeq(a, 1, k - 1)
           y == SubSeq(b, 1, k - 1)
<1>1. /\ x \in Seq(Nat) /\ y \in Seq(Nat) /\ Len(x) = k - 1 /\ Len(y) = k - 1
      /\ \A l \in 1 .. k - 1 : x[l] = a[l] /\ y[l] = b[l]
  <2>1. \A c \in Seq(Nat) : \A m \in 0 .. Len(c) :
          /\ SubSeq(c, 1, m) \in Seq(Nat) /\ Len(SubSeq(c, 1, m)) = m
          /\ \A l \in 1 .. m : SubSeq(c, 1, m)[l] = c[l]
    OBVIOUS
  <2>2. k - 1 \in 0 .. Len(a) /\ k - 1 \in 0 .. Len(b) /\ a \in Seq(Nat) /\ b \in Seq(Nat)
    BY DEF OID
  <2> QED  BY <2>1, <2>2
<1>2. (\A l \in 1 .. k - 1 : x[l] = y[l]) => x = y
  <2> HIDE DEF x, y
  <2> QED  BY <1>1
<1> QED  BY <1>1, <1>2

\* snmp_oid_compare, place by place.
LEMMA PrecedesIs ==
    ASSUME NEW a \in OID, NEW b \in OID
    PROVE  Precedes(a, b) <=> \E k \in Nat : Decides(k, a, b)
<1>1. Len(a) \in Nat /\ Len(b) \in Nat
  BY DEF OID
<1>2. ASSUME IsStrictPrefix(a, b)  PROVE Decides(Len(a) + 1, a, b)
  <2>1. Len(a) <= Len(b) /\ \A l \in 1 .. Len(a) : a[l] = b[l]
    BY <1>2, PrefixIs DEF IsStrictPrefix
  <2>2. Len(a) # Len(b)
    <3> SUFFICES ASSUME Len(a) = Len(b)  PROVE a = b
      BY <1>2 DEF IsStrictPrefix
    <3> QED  BY <2>1 DEF OID
  <2> QED  BY <1>1, <2>1, <2>2 DEF Decides
<1>3. ASSUME NEW k \in 1 .. Len(a), k <= Len(b),
             SubSeq(a, 1, k - 1) = SubSeq(b, 1, k - 1), a[k] < b[k]
      PROVE  Decides(k, a, b)
  <2>1. \A l \in 1 .. k - 1 : a[l] = b[l]
    BY <1>3, BeforeIs
  <2> QED  BY <1>1, <1>3, <2>1 DEF Decides
<1>4. ASSUME NEW k \in Nat, Decides(k, a, b)  PROVE Precedes(a, b)
  <2>1. CASE k = Len(a) + 1
    <3>1. Len(a) <= Len(b) /\ Len(a) # Len(b) /\ \A l \in 1 .. Len(a) : a[l] = b[l]
      BY <1>1, <1>4, <2>1 DEF Decides
    <3>2. IsPrefix(a, b) /\ a # b
      BY <3>1, PrefixIs
    <3> QED  BY <3>2 DEF Precedes, IsStrictPrefix
  <2>2. CASE k <= Len(a) /\ a[k] < b[k]
    <3>1. k \in 1 .. Len(a) /\ k <= Len(b) /\ \A l \in 1 .. k - 1 : a[l] = b[l]
      BY <1>1, <1>4, <2>2 DEF Decides
    <3>2. SubSeq(a, 1, k - 1) = SubSeq(b, 1, k - 1)
      BY <3>1, BeforeIs
    <3> QED  BY <2>2, <3>1, <3>2 DEF Precedes
  <2> QED  BY <1>4, <2>1, <2>2 DEF Decides
<1>5. ASSUME Precedes(a, b)  PROVE \E k \in Nat : Decides(k, a, b)
  BY <1>1, <1>2, <1>3, <1>5 DEF Precedes
<1> QED  BY <1>4, <1>5

\* It is an order ...
LEMMA Irreflexive == \A a \in OID : ~Precedes(a, a)
<1> SUFFICES ASSUME NEW a \in OID, NEW k \in Nat, Decides(k, a, a)  PROVE FALSE
  BY PrecedesIs
<1>1. Len(a) \in Nat /\ (k \in 1 .. Len(a) => a[k] \in Nat)
  BY DEF OID
<1> QED  BY <1>1 DEF Decides

\* The order of OIDs is transitive.
LEMMA Transitive ==
    \A a, b, c \in OID : Precedes(a, b) /\ Precedes(b, c) => Precedes(a, c)
<1> SUFFICES ASSUME NEW a \in OID, NEW b \in OID, NEW c \in OID,
                    NEW k \in Nat, Decides(k, a, b), NEW m \in Nat, Decides(m, b, c)
             PROVE  \E l \in Nat : Decides(l, a, c)
  BY PrecedesIs
<1>1. /\ Len(a) \in Nat /\ Len(b) \in Nat /\ Len(c) \in Nat
      /\ \A l \in Nat : /\ l \in 1 .. Len(a) => a[l] \in Nat
                        /\ l \in 1 .. Len(b) => b[l] \in Nat
                        /\ l \in 1 .. Len(c) => c[l] \in Nat
  BY DEF OID
<1>2. CASE k < m
  <2>1. k \in 1 .. Len(c) /\ k <= Len(b) /\ b[k] = c[k]
    BY <1>1, <1>2 DEF Decides
  <2>2. \A l \in 1 .. k - 1 : l <= Len(a) /\ a[l] = c[l]
    BY <1>1, <1>2 DEF Decides
  <2> QED  BY <1>1, <2>1, <2>2 DEF Decides
<1>3. CASE k = m
  <2>1. \A l \in 1 .. k - 1 : l <= Len(a) /\ a[l] = c[l]
    BY <1>1, <1>3 DEF Decides
  <2>2. k = Len(a) + 1 \/ (k <= Len(a) /\ a[k] < c[k])
    BY <1>1, <1>3 DEF Decides
  <2> QED  BY <1>1, <1>3, <2>1, <2>2 DEF Decides
<1>4. CASE m < k
  <2>1. m <= Len(a) /\ a[m] = b[m] /\ b[m] < c[m]
    BY <1>1, <1>4 DEF Decides
  <2>2. \A l \in 1 .. m - 1 : l <= Len(a) /\ a[l] = c[l]
    BY <1>1, <1>4 DEF Decides
  <2> QED  BY <1>1, <2>1, <2>2 DEF Decides
<1> QED  BY <1>2, <1>3, <1>4

\* ... in which of two OIDs one is first.
LEMMA Total == \A a, b \in OID : a = b \/ Precedes(a, b) \/ Precedes(b, a)
<1> SUFFICES ASSUME NEW a \in OID, NEW b \in OID, a # b
             PROVE  \E k \in Nat : Decides(k, a, b) \/ Decides(k, b, a)
  BY PrecedesIs
<1> DEFINE T == {k \in Nat \ {0} : ~ (k <= Len(a) /\ k <= Len(b) /\ a[k] = b[k])}
<1>1. /\ Len(a) \in Nat /\ Len(b) \in Nat
      /\ \A l \in Nat : /\ l \in 1 .. Len(a) => a[l] \in Nat
                        /\ l \in 1 .. Len(b) => b[l] \in Nat
  BY DEF OID
<1>2. Len(a) + 1 \in T
  BY <1>1
<1>3. PICK k \in T : \A l \in T : k <= l
  <2> HIDE DEF T
  <2>1. T \subseteq Nat
    BY DEF T
  <2> QED  BY <1>2, <2>1, LeastOf
<1>4. \A l \in 1 .. k - 1 : l <= Len(a) /\ l <= Len(b) /\ a[l] = b[l]
  BY <1>3
<1>5. k <= Len(a) + 1 /\ k <= Len(b) + 1
  BY <1>1, <1>2, <1>4
<1>6. ~ (k = Len(a) + 1 /\ k = Len(b) + 1)
  <2> SUFFICES ASSUME k = Len(a) + 1, k = Len(b) + 1  PROVE a = b
    OBVIOUS
  <2>1. Len(a) = Len(b) /\ \A l \in 1 .. Len(a) : a[l] = b[l]
    BY <1>1, <1>4
  <2> QED  BY <2>1 DEF OID
<1>7. k \in Nat /\ k # 0
  OBVIOUS
<1>8. CASE k <= Len(a) /\ k <= Len(b)
  <2>1. a[k] < b[k] \/ b[k] < a[k]
    BY <1>1, <1>7, <1>8
  <2> QED  BY <1>1, <1>4, <1>7, <1>8, <2>1 DEF Decides
<1>9. CASE k = Len(a) + 1 /\ k <= Len(b)
  BY <1>1, <1>4, <1>7, <1>9 DEF Decides
<1>10. CASE k = Len(b) + 1 /\ k <= Len(a)
  BY <1>1, <1>4, <1>7, <1>10 DEF Decides
<1> QED  BY <1>1, <1>5, <1>6, <1>7, <1>8, <1>9, <1>10

\* What comes between an OID and something below it is below it, too.
LEMMA Between ==
    ASSUME NEW o \in OID, NEW x \in OID, NEW p \in OID, IsPrefix(o, p),
           o = x \/ Precedes(o, x), x = p \/ Precedes(x, p)
    PROVE  IsPrefix(o, x)
<1>1. CASE o = x
  BY <1>1 DEF IsPrefix
<1>2. CASE Precedes(o, x)
  <2>1. PICK k \in Nat : Decides(k, o, x)
    BY <1>2, PrecedesIs
  <2>2. CASE k = Len(o) + 1
    <3>1. Len(o) <= Len(x) /\ \A l \in 1 .. Len(o) : o[l] = x[l]
      BY <2>1, <2>2 DEF Decides, OID
    <3> QED  BY <3>1, PrefixIs
  <2>3. CASE k <= Len(o) /\ o[k] < x[k]
    <3>1. Len(o) <= Len(p) /\ \A l \in 1 .. Len(o) : o[l] = p[l]
      BY PrefixIs
    <3>2. Decides(k, p, x)
      BY <2>1, <2>3, <3>1 DEF Decides, OID
    <3>3. Precedes(p, x)
      BY <3>2, PrecedesIs
    <3> QED  BY <3>3, Irreflexive, Transitive
  <2> QED  BY <2>1, <2>2, <2>3 DEF Decides
<1> QED  BY <1>1, <1>2

-----------------------------------------------------------------------------
(* The loop.                                                               *)

\* The loop may go on.
Walking == loc \in {"loop", "asked"}

\* What may get a line.
Listed(o) == o \in Objects /\ StartsWith(o, Start) /\ o # Start

\* Instances that were there all the time below Start and have a text.
Due == {p \in steady \ Blank : IsPrefix(Start, p) /\ p # Start}

WalkTypeOK ==
    /\ loc \in {"loop", "asked", "done", "thrown"}
    /\ v1 \in BOOLEAN
    /\ mib \subseteq Objects /\ steady \subseteq mib
    /\ currentOid \in OID
    /\ walked \in Seq(Objects)

\* The loop is at an OID it may go on from, and is not behind what it has listed.
Place ==
    Walking =>
        /\ StartsWith(currentOid, Start)
        /\ currentOid = Start \/ Precedes(Start, currentOid)
        /\ \A o \in ToSet(walked) : o = currentOid \/ Precedes(o, currentOid)

\* What it has listed is in order and below Start, as far as texts tell.
InOrder ==
    /\ \A o \in ToSet(walked) : Listed(o)
    /\ \A k, l \in 1 .. Len(walked) : k < l => Precedes(walked[k], walked[l])

\* What has to be listed is listed, or comes after the place of the loop.
NothingMissed ==
    /\ Walking => \A p \in Due : p \in ToSet(walked) \/ Precedes(currentOid, p)
    /\ loc = "done" => Due \subseteq ToSet(walked)

WalkInv == WalkTypeOK /\ Place /\ InOrder /\ NothingMissed

\* What begins with an OID begins with its text.
LEMMA PrefixStarts ==
    ASSUME NEW x \in OID, IsPrefix(Start, x)
    PROVE  StartsWith(x, Start)
<1>1. Start \in Seq(Nat) /\ Len(Start) \in Nat /\ Len(Start) # 0
  BY SnmpWalkAssumption
<1>2. Len(Start) <= Len(x) /\ \A l \in 1 .. Len(Start) : Start[l] = x[l]
  BY <1>1, PrefixIs DEF OID
<1>3. SubSeq(Start, 1, Len(Start) - 1) = SubSeq(x, 1, Len(Start) - 1)
  BY <1>1, <1>2, BeforeIs DEF OID
<1> QED  BY <1>1, <1>2, <1>3 DEF StartsWith, Front, Last, DigitsStart

\* The agent's answer is an end of the MIB or the first OID after the one asked for.
LEMMA AnswerIs ==
    ASSUME WalkTypeOK
    PROVE  \/ Later(currentOid) = {} /\ GetNext(currentOid) = EndOfMib(currentOid)
           \/ \E next \in Later(currentOid) :
                /\ \A q \in Later(currentOid) : q = next \/ Precedes(next, q)
                /\ GetNext(currentOid) =
                     [errstat |-> FALSE, oid |-> next, value |-> HasText(next)]
<1> DEFINE T == Later(currentOid)
           R == {p \in T \X T : Precedes(p[1], p[2])}
<1>1. CASE T = {}
  BY <1>1 DEF GetNext
<1>2. CASE T # {}
  <2>1. T \subseteq OID /\ IsFiniteSet(T)
    BY SnmpWalkAssumption, FS_Subset DEF WalkTypeOK, Later, OID
  <2>2. \A x, y \in T : <<x, y>> \in R <=> Precedes(x, y)
    OBVIOUS
  <2> HIDE DEF R
  <2>3. \A x, y, z \in T : <<x, y>> \in R /\ <<y, z>> \in R => <<x, z>> \in R
    BY <2>1, <2>2, Transitive
  <2>4. \A x \in T : <<x, x>> \notin R
    BY <2>1, <2>2, Irreflexive
  <2>5. PICK m \in T : \A x \in T : <<x, m>> \notin R
    <3> HIDE DEF T
    <3> QED  BY <1>2, <2>1, <2>3, <2>4, MinimalOf
  <2>6. \A q \in T \ {m} : Precedes(m, q)
    BY <2>1, <2>2, <2>5, Total
  <2> DEFINE next == CHOOSE p \in T : \A q \in T \ {p} : Precedes(p, q)
  <2>7. next \in T /\ \A q \in T \ {next} : Precedes(next, q)
    BY <2>6
  <2>8. GetNext(currentOid) = [errstat |-> FALSE, oid |-> next, value |-> HasText(next)]
    BY <1>2 DEF GetNext
  <2> HIDE DEF next, T
  <2> QED  BY <2>7, <2>8 DEF T
<1> QED  BY <1>1, <1>2

\* Nothing happens to the lines at an end of the MIB.
LEMMA EndStep ==
    ASSUME WalkInv, loc = "asked", Later(currentOid) = {},
           Proceed(EndOfMib(currentOid)), UNCHANGED <<v1, mib, steady>>
    PROVE  WalkInv'
<1>1. walked' = walked /\ currentOid' = currentOid
  BY DEF Proceed, Append1, EndOfMib
<1>2. loc' \in {"loop", "done"}
  BY DEF Proceed
<1>3. Due \subseteq ToSet(walked)
  BY DEF WalkInv, WalkTypeOK, NothingMissed, Walking, Due, Later
<1>4. Due' = Due
  BY DEF Due
<1> QED
  BY <1>1, <1>2, <1>3, <1>4
     DEF WalkInv, WalkTypeOK, Place, InOrder, NothingMissed, Walking, Listed

\* The next instance gets a line, if it has a text, or is behind the walk.
LEMMA NextStep ==
    ASSUME WalkInv, loc = "asked", UNCHANGED <<v1, mib, steady>>,
           NEW next \in Later(currentOid),
           \A q \in Later(currentOid) : q = next \/ Precedes(next, q),
           Proceed([errstat |-> FALSE, oid |-> next, value |-> HasText(next)])
    PROVE  WalkInv'
<1>1. /\ next \in mib /\ next \in Objects /\ next \in OID /\ Precedes(currentOid, next)
      /\ currentOid \in OID /\ Start \in OID /\ Objects \subseteq OID
  BY SnmpWalkAssumption DEF Later, WalkInv, WalkTypeOK, OID
<1>2. Precedes(Start, next) /\ next # Start
  BY <1>1, Transitive, Irreflexive DEF WalkInv, Place, Walking
<1>3. ToSet(walked) \subseteq Objects
  BY DEF WalkInv, WalkTypeOK, ToSet
<1>4. \A o \in ToSet(walked) : Precedes(o, next)
  BY <1>1, <1>3, Transitive DEF WalkInv, Place, Walking
<1>5. Due' = Due /\ Due \subseteq OID /\ Due \subseteq mib
  BY <1>1 DEF Due, WalkInv, WalkTypeOK
<1>6. \A p \in Due : p \in ToSet(walked) \/ p = next \/ Precedes(next, p)
  BY <1>5 DEF WalkInv, NothingMissed, Walking, Later
<1>7. CASE StartsWith(next, Start)
  <2>1. /\ loc' = "loop" /\ currentOid' = next
        /\ walked' = IF HasText(next) THEN Append(walked, next) ELSE walked
    BY <1>2, <1>7 DEF Proceed, Append1
  <2>2. /\ walked' \in Seq(Objects)
        /\ ToSet(walked') = ToSet(walked) \cup (IF HasText(next) THEN {next} ELSE {})
    <3>1. walked \in Seq(Objects)
      BY DEF WalkInv, WalkTypeOK
    <3>2. Append(walked, next) \in Seq(Objects)
          /\ ToSet(Append(walked, next)) = ToSet(walked) \cup {next}
      <4>1. /\ Append(walked, next) \in Seq(Objects)
            /\ DOMAIN Append(walked, next) = 1 .. Len(walked) + 1
            /\ DOMAIN walked = 1 .. Len(walked) /\ Len(walked) \in Nat
            /\ \A k \in 1 .. Len(walked) : Append(walked, next)[k] = walked[k]
            /\ Append(walked, next)[Len(walked) + 1] = next
        BY <1>1, <3>1
      <4> QED  BY <4>1 DEF ToSet
    <3> QED  BY <2>1, <3>1, <3>2
  <2>3. WalkTypeOK'
    BY <1>1, <2>1, <2>2 DEF WalkInv, WalkTypeOK
  <2>4. Place'
    BY <1>2, <1>4, <1>7, <2>1, <2>2 DEF Place
  <2>5. InOrder'
    <3>1. \A o \in ToSet(walked') : Listed(o)
      BY <1>1, <1>2, <1>7, <2>2 DEF Listed, WalkInv, InOrder
    <3>2. \A k, l \in 1 .. Len(walked') : k < l => Precedes(walked'[k], walked'[l])
      <4>1. walked \in Seq(Objects) /\ \A k \in 1 .. Len(walked) : walked[k] \in ToSet(walked)
        BY DEF WalkInv, WalkTypeOK, ToSet
      <4>2. CASE HasText(next)
        <5>1. /\ Len(walked') = Len(walked) + 1 /\ Len(walked) \in Nat
              /\ \A k \in 1 .. Len(walked) : walked'[k] = walked[k]
              /\ walked'[Len(walked) + 1] = next
          BY <1>1, <2>1, <4>1, <4>2
        <5>2. ASSUME NEW k \in 1 .. Len(walked'), NEW l \in 1 .. Len(walked'), k < l
              PROVE  Precedes(walked'[k], walked'[l])
          <6>1. k \in 1 .. Len(walked) /\ walked'[k] = walked[k]
            BY <5>1, <5>2
          <6>2. CASE l \in 1 .. Len(walked)
            BY <5>1, <5>2, <6>1, <6>2 DEF WalkInv, InOrder
          <6>3. CASE l = Len(walked) + 1
            BY <1>4, <4>1, <5>1, <6>1, <6>3
          <6> QED  BY <5>1, <6>2, <6>3
        <5> QED  BY <5>2
      <4>3. CASE ~HasText(next)
        BY <2>1, <4>3 DEF WalkInv, InOrder
      <4> QED  BY <4>2, <4>3
    <3> QED  BY <3>1, <3>2 DEF InOrder, Listed
  <2>6. NothingMissed'
    <3>1. next \in Due => HasText(next)
      BY DEF Due, HasText
    <3> QED  BY <1>5, <1>6, <2>1, <2>2, <3>1 DEF NothingMissed, Walking
  <2> QED  BY <2>3, <2>4, <2>5, <2>6 DEF WalkInv
<1>8. CASE ~StartsWith(next, Start)
  <2>1. loc' = "done" /\ currentOid' = next /\ walked' = walked
    BY <1>2, <1>8 DEF Proceed
  <2>2. ASSUME NEW p \in Due  PROVE p \in ToSet(walked)
    <3>1. ~IsPrefix(Start, next)
      BY <1>1, <1>8, PrefixStarts
    <3>2. IsPrefix(Start, p) /\ p \in OID
      BY <1>5 DEF Due
    <3>3. ~ (p = next \/ Precedes(next, p))
      BY <1>1, <1>2, <3>1, <3>2, Between
    <3> QED  BY <1>6, <3>3
  <2> QED
    BY <1>1, <1>5, <2>1, <2>2
       DEF WalkInv, WalkTypeOK, Place, InOrder, NothingMissed, Walking, Listed
<1> QED  BY <1>7, <1>8

\* Every step of a walk preserves the invariant.
LEMMA WalkStepInv == WalkInv /\ [WNext]_wvars => WalkInv'
<1> SUFFICES ASSUME WalkInv, [WNext]_wvars  PROVE WalkInv'
  OBVIOUS
<1>1. CASE Ask
  BY <1>1 DEF Ask, WalkInv, WalkTypeOK, Place, InOrder, NothingMissed, Walking, Listed, Due
<1>2. CASE Answered
  BY <1>2, AnswerIs, EndStep, NextStep DEF Answered, WalkInv
<1>3. CASE WalkThrows
  BY <1>3 DEF WalkThrows, WalkInv, WalkTypeOK, Place, InOrder, NothingMissed, Walking, Listed
<1>4. CASE Change
  <2>1. mib' \subseteq Objects /\ steady' = steady \cap mib'
    BY <1>4 DEF Change, WalkInv, WalkTypeOK
  <2>2. Due' \subseteq Due
    BY <2>1 DEF Due
  <2> QED
    BY <1>4, <2>1, <2>2
       DEF Change, WalkInv, WalkTypeOK, Place, InOrder, NothingMissed, Walking, Listed
<1>5. CASE UNCHANGED wvars
  BY <1>5 DEF wvars, WalkInv, WalkTypeOK, Place, InOrder, NothingMissed, Walking, Listed, Due
<1> QED  BY <1>1, <1>2, <1>3, <1>4, <1>5 DEF WNext

\* A walk begins before everything it has to list.
LEMMA WalkInitInv == WInit => WalkInv
<1> SUFFICES ASSUME WInit  PROVE WalkInv
  OBVIOUS
<1>1. loc = "loop" /\ currentOid = Start /\ walked = <<>> /\ mib \subseteq Objects /\ steady = mib
  BY DEF WInit
<1>2. Start \in OID /\ Objects \subseteq OID
  BY SnmpWalkAssumption DEF OID
<1>3. ToSet(walked) = {}
  BY <1>1 DEF ToSet
<1>4. StartsWith(Start, Start)
  BY <1>2, PrefixStarts DEF IsPrefix
<1>5. \A p \in Due : Precedes(Start, p)
  BY DEF Due, Precedes, IsStrictPrefix
<1>6. v1 \in BOOLEAN
  BY SnmpWalkAssumption DEF WInit
<1> QED
  BY <1>1, <1>2, <1>3, <1>4, <1>5, <1>6
     DEF WalkInv, WalkTypeOK, Place, InOrder, NothingMissed, Walking

\* Between two steps of snmpWalk (mibBrowser/snmp.cpp) the loop is never behind a
\* line it has written, and nothing that was there all the time lies between.
THEOREM WalkInvariant == WSpec => []WalkInv
BY WalkInitInv, WalkStepInv, PTL DEF WSpec

\* What may get a line is below Start or one of its siblings.
LEMMA ListedIs ==
    ASSUME NEW o, Listed(o)
    PROVE  /\ DigitsStart(Last(Start), o[Len(Start)])
           /\ IsPrefix(Sibling(o[Len(Start)]), o)
<1>1. Start \in OID /\ o \in OID /\ Len(Start) \in Nat /\ Len(Start) # 0
  BY SnmpWalkAssumption DEF Listed, OID
<1>2. /\ Len(Start) <= Len(o)
      /\ SubSeq(Start, 1, Len(Start) - 1) = SubSeq(o, 1, Len(Start) - 1)
      /\ DigitsStart(Last(Start), o[Len(Start)])
  BY DEF Listed, StartsWith, Front
<1>3. \A l \in 1 .. Len(Start) - 1 : Start[l] = o[l]
  <2>1. Len(Start) \in 1 .. Len(Start)
    BY <1>1
  <2> QED  BY <1>1, <1>2, <2>1, BeforeIs
<1> DEFINE s == Sibling(o[Len(Start)])
<1>4. /\ s \in OID /\ Len(s) = Len(Start)
      /\ \A l \in 1 .. Len(Start) : s[l] = IF l = Len(Start) THEN o[Len(Start)] ELSE Start[l]
  <2>1. o[Len(Start)] \in Nat
    BY <1>1, <1>2 DEF OID
  <2> QED  BY <1>1, <2>1 DEF Sibling, OID
<1>5. \A l \in 1 .. Len(s) : s[l] = o[l]
  BY <1>1, <1>3, <1>4
<1> HIDE DEF s
<1> QED  BY <1>1, <1>2, <1>4, <1>5, PrefixIs DEF s

\* The lines of a walk are in the order of their OIDs, none of them twice, and all
\* below Start or one of its siblings, whatever the agent adds and removes meanwhile.
THEOREM LinesInOrder == WSpec => []WalkInOrder
<1>1. WalkInv => WalkInOrder
  <2> SUFFICES ASSUME WalkInv  PROVE WalkInOrder
    OBVIOUS
  <2>1. \A k \in 1 .. Len(walked) : walked[k] \in ToSet(walked)
    BY DEF WalkInv, WalkTypeOK, ToSet
  <2>2. \A k \in 1 .. Len(walked) : Listed(walked[k])
    BY <2>1 DEF WalkInv, InOrder
  <2>3. \A k \in 1 .. Len(walked) : walked[k] \in Objects \ {Start}
    BY <2>2 DEF Listed
  <2> QED  BY <2>2, <2>3, ListedIs DEF WalkInOrder, WalkInv, InOrder
<1> QED  BY <1>1, WalkInvariant, PTL

\* A walk that ended lists every instance below Start that was there all the time
\* and has a text.
THEOREM NothingLost == WSpec => []WalkComplete
<1>1. WalkInv => WalkComplete
  BY DEF WalkInv, WalkTypeOK, NothingMissed, WalkComplete, Due, Subtree, IsStrictPrefix
<1> QED  BY <1>1, WalkInvariant, PTL

=============================================================================

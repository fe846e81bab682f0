------------------------------ MODULE SyncCall ------------------------------
(***************************************************************************)
(* What SnmpRequest::snmpSyncResponse promises to snmpWalk and to the GET  *)
(* handlers: calls on one session happen one after the other, each of them *)
(* returns, a call that reports success hands back the answer to its own   *)
(* request, and a session on which a call failed is not used again.        *)
(***************************************************************************)
EXTENDS Naturals

CONSTANT MaxNames       \* numbers that name calls

VARIABLES phase,        \* "ready", "pending" or "failed"
          n,            \* name of the current (or last) call
          outcome       \* [status, answer] of the last call that returned

cvars == <<phase, n, outcome>>

NoAnswer == 0

\* Outcomes a call may report; an answer is named by the call it answers.
Outcomes(k) ==
    {[status |-> "STAT_SUCCESS", answer |-> k]}
        \cup [status : {"STAT_ERROR"}, answer : {NoAnswer, k}]
        \cup {[status |-> "STAT_TIMEOUT", answer |-> NoAnswer]}

CInit ==
    /\ phase = "ready"
    /\ n = 0
    /\ outcome = [status |-> "STAT_SUCCESS", answer |-> NoAnswer]

\* A call takes a name other than that of the call before it.
Begin ==
    /\ phase = "ready"
    /\ phase' = "pending"
    /\ n' \in (1 .. MaxNames) \ {n}
    /\ UNCHANGED outcome

Finish ==
    /\ phase = "pending"
    /\ outcome' \in Outcomes(n)
    /\ phase' = IF outcome'.status = "STAT_SUCCESS" THEN "ready" ELSE "failed"
    /\ UNCHANGED n

CNext == Begin \/ Finish

CSpec == CInit /\ [][CNext]_cvars /\ WF_cvars(Finish)

=============================================================================

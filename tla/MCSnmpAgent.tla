---------------------------- MODULE MCSnmpAgent ----------------------------
(***************************************************************************)
(* What the main loop of the agent does: requests, and alarms.  They share *)
(* no state, so each runs alone: `part' is the one that does.              *)
(***************************************************************************)
EXTENDS SnmpAgent, SnmpAlarm

CONSTANT Parts          \* the parts that a run looks at

VARIABLE part

\* The second request has two variable bindings, the others have one.
MCVars == [r \in 1 .. MaxRequests |-> IF r = 2 THEN 2 ELSE 1]

MCCommands ==
    [r \in 1 .. MaxRequests |->
        {"SET"} \cup IF r = 1 THEN {"GET", "GETNEXT"}
                     ELSE IF r = 2 THEN {"GETNEXT"} ELSE {"GET"}]

-----------------------------------------------------------------------------
AgentInit == part \in Parts /\ Init /\ AlarmInit

AgentNext ==
    /\ UNCHANGED part
    /\ \/ part = "requests" /\ Next /\ UNCHANGED alarmVars
       \/ part = "alarms" /\ AlarmNext /\ UNCHANGED vars

\* That of the part that runs; of no alarm anything is enabled.
AgentFairness ==
    /\ WF_vars(part = "requests" /\ (Run \/ CheckOutstanding))
    /\ SF_vars(part = "requests" /\ Answers)
    /\ AlarmFairness

AgentSpec == AgentInit /\ [][AgentNext]_<<part, vars, alarmVars>> /\ AgentFairness

=============================================================================

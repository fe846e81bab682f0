----------------------------- MODULE MCRequests -----------------------------
(***************************************************************************)
(* A request of the browser at its three levels: one call on a session,    *)
(* a walk made of calls, and the window whose slots start and end request  *)
(* threads.  Each level abstracts the one below, so they are checked apart: *)
(* `part' is the one that runs.                                            *)
(***************************************************************************)
EXTENDS SyncRequest, Browser, SnmpWalk

CONSTANTS Parts         \* the parts that a run looks at

VARIABLE part

-----------------------------------------------------------------------------
\* Datagrams or a stream, v2c or v3.
MCSessions == [v3 : BOOLEAN, stream : BOOLEAN]

\* A column of a table with the columns 1, 2 and 10: 10 begins with the digits
\* of 1.  One of its rows is an empty string, and instances come and go.
MCObjects ==
    {<<1, 3, 1, 1>>, <<1, 3, 1, 2>>, <<1, 3, 1, 3>>, <<1, 3, 2, 1>>, <<1, 3, 10, 1>>}
MCStart == <<1, 3, 1>>
MCBlank == {<<1, 3, 1, 2>>}

\* The last column of an SNMPv2 agent that serves nothing behind it.
LastColumn == INSTANCE SnmpWalk WITH
    Objects <- {<<1, 2, 1>>, <<1, 3, 1, 1>>, <<1, 3, 2, 1>>, <<1, 3, 2, 2>>},
    Start <- <<1, 3, 2>>,
    Blank <- {},
    Versions <- {FALSE},
    Changing <- FALSE

-----------------------------------------------------------------------------
CallInit == Init
CallNext == Next
CallVars == vars

\* A part that does not run starts in one way only.
RequestsInit ==
    /\ part \in Parts
    /\ CallInit /\ (part # "call" => session = [v3 |-> FALSE, stream |-> FALSE])
    /\ IF part = "walk" THEN WInit ELSE LastColumn!WInit
    /\ WindowInit

RequestsNext ==
    /\ UNCHANGED part
    /\ \/ part = "call" /\ CallNext /\ UNCHANGED <<wvars, windowVars>>
       \/ part = "walk" /\ WNext /\ UNCHANGED <<CallVars, windowVars>>
       \/ part = "tail" /\ LastColumn!WNext /\ UNCHANGED <<CallVars, windowVars>>
       \/ part = "window" /\ WindowNext /\ UNCHANGED <<CallVars, wvars>>

\* Nothing of a part that does not run is enabled, except in the walks.
RequestsFairness ==
    /\ Fairness /\ WindowFairness
    /\ WF_wvars(part = "walk" /\ Ask)
    /\ WF_wvars(part = "walk" /\ (Answered \/ WalkThrows))
    /\ WF_wvars(part = "tail" /\ LastColumn!Ask)
    /\ WF_wvars(part = "tail" /\ (LastColumn!Answered \/ LastColumn!WalkThrows))

RequestsSpec ==
    RequestsInit /\ [][RequestsNext]_<<part, CallVars, wvars, windowVars>>
        /\ RequestsFairness

-----------------------------------------------------------------------------
\* A walk of an SNMPv1 agent ends (SnmpWalk).
FirstVersionWalkEnds == part = "walk" => FirstVersionEnds

\* A walk of an unchanging MIB ends (SnmpWalk).
LastColumnEnds == part = "tail" => LastColumn!WalkEnds

=============================================================================

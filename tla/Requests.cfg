SPECIFICATION RequestsSpec
CONSTANTS
    Parts = {"call", "walk", "window"}
    MaxCalls = 3
    Retries = 2
    Sessions <- MCSessions
    Requests = {"r1", "r2"}
    Tables = {"ifTable", "tcpTable"}
    Kinds = {"Get", "GetNext", "Column", "Index"}
    NoTable = "none"
    MaxNames = 2
    Objects <- MCObjects
    Start <- MCStart
    Blank <- MCBlank
    Versions = {TRUE, FALSE}
    Changing = TRUE
CHECK_DEADLOCK FALSE
INVARIANTS
    SessionReusable
    NeverWaitsForNothing
    TriesNotAhead
    WalkInOrder
    WalkComplete
    OneGetAtATime
    TableMatchesHeading
    DestroyedOnlyIfRestarted
PROPERTIES
    ImplementsSyncCall
    FirstVersionWalkEnds
    ButtonsComeBack
    RequestsFreed

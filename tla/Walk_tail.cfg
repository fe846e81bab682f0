SPECIFICATION RequestsSpec
CONSTANTS
    Parts = {"tail"}
    MaxCalls = 2
    Retries = 1
    Sessions <- MCSessions
    Requests = {"r1", "r2"}
    Tables = {"ifTable", "tcpTable"}
    Kinds = {"Get", "GetNext", "Column", "Index"}
    NoTable = "none"
    MaxNames = 2
    Objects <- MCObjects
    Start <- MCStart
    Blank <- MCBlank
    Versions = {TRUE, FALSE}
    Changing = TRUE
CHECK_DEADLOCK FALSE
PROPERTIES
    LastColumnEnds

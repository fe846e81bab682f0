SPECIFICATION AgentSpec
CONSTANTS
    Parts = {"requests", "alarms"}
    MaxRequests = 3
    Vars <- MCVars
    Subagents = 1
    Commands <- MCCommands
    Intervals = {0, 1}
    MaxReg = 2
    MaxTime = 3
    MaxDepth = 2
CHECK_DEADLOCK FALSE
INVARIANTS
    ListsRight
PROPERTIES
    ServesRequests
    CommitsWhatAllAgreed
    EveryRequestAnswered
    DueIsRun

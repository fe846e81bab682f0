SPECIFICATION AgentSpec
CONSTANTS
    Parts = {"requests"}
    MaxRequests = 2
    Vars <- MCVars
    Subagents = 1
    Commands <- MCCommands
    Intervals = {0, 1}
    MaxReg = 2
    MaxTime = 3
    MaxDepth = 2
CHECK_DEADLOCK FALSE
PROPERTIES
    AllOrNothing

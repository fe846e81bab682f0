SPECIFICATION LibrarySpec
CONSTANTS
    EngineTimeMax = 5
    EngineBootMax = 3
    TimeWindow = 1
    StartTimes = {0, 3}
    MaxClock = 4
    MaxSent = 2
    Parts = {"events"}
    Intervals = {0, 1}
    MaxReg = 3
    MaxTime = 3
    MaxDepth = 2
    Backups = 1
    Users = {"u1", "u2"}
    MaxStores = 3
    MaxRefused = 0
    MaxCrashes = 3
    Caches = {"plain", "file", "timer"}
    HasFree = {"plain", "file", "timer"}
    Timeout <- MCTimeout
    Flags <- MCFlags
    Requests = {"r"}
    Frequency = 2
    MaxCacheTime = 7
    None = None
    Hooks = {hook1, hook2}
    Priorities = {1, 2}
    MaxNodes = 3
    MaxCalls = 2
    Streams <- MCStreams
    RxBuf = 4
    MaxPacket = 20
CHECK_DEADLOCK FALSE
INVARIANTS
    NothingFreedInUse

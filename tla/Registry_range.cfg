SPECIFICATION TablesSpec
CONSTANTS
    Parts = {"registry"}
    N = 5
    MaxSubid = 3
    system = system
    sysName = sysName
    ifTable = ifTable
    ifEntry = ifEntry
    ifIndex = ifIndex
    ifDescr = ifDescr
    Items <- MCItems
    Children <- MCChildren
    Tables <- ItemsOfTables
    Queries <- MCQueries
    Matching <- MCMatching
    Exact <- MCExact
    Typed = Typed
    None = None
    Headings <- MCHeadings
    Rows = 2
    Awkward <- MCAwkward
    MaxRequests = 3
    Families <- MCFamilies
    Accesses <- MCAccesses
    AnyModel = "any"
    Models = {"usm", "tsm"}
    Levels = {1, 2, 3}
    Contexts <- MCContexts
    Subtrees <- MCSubtrees
    Deepest <- MCDeepest
    Imports <- MCImports
    Nodes <- MCNodes
    Broken = {"d"}
    Base = "smi"
    Roots <- MCRoots
    MaxUnloads = 2
    Ranges <- RangeAcross
    Registrable <- MCRegistrable
    Priorities = {1, 2}
    Sessions = {"s"}
    Probes <- MCProbes
    CacheSize = 2
    Keys = {1, 2, 3}
    MaxEntries = 5
    MaxSync = 7
    VarCount = 2
    MinColumn = 2
    MaxColumn = 4
    MaxRow = 2
    Valids <- MCValids
    Names <- MCNames
    Optional <- MCOptional
    Mentions = {"STATUS", "DESCRIPTION"}
    MaxLines = 2
CHECK_DEADLOCK FALSE
INVARIANTS
    RangeIsGone

SPECIFICATION Spec
CONSTANTS
    None = None
    Nobody = Nobody
    NoRequest = NoRequest
    bin = bin
    idb = idb
    a = a
    b = b
    s1 = s1
    s2 = s2
    t1 = t1
    t2 = t2
    n = n
    c1 = c1
    c2 = c2
    c3 = c3
    fa = fa
    fb = fb
    Paths = {bin, idb}
    Candidates <- CandidatesDef
    Names = {}
    Contexts = {a}
    Requests = {1, 2, 3}
    Procs = {1, 2}
    MaxWorkers = 1
    Files = {fa, fb}
    SessionIds = {s1, s2}
    Windows = {a, b}
    Servers = {s1, s2}
    WindowOf <- WindowOfDef
    Ports = {1, 2}
    BasePorts = {1}
    Scans = {c1}
    MaxStarts = 2
    Targets = {t1, t2}
    TargetNames = {n}
    NamedTargets <- NamedDef
    Sessions = {s1, s2}
    Calls = {c1, c2}
    Hosts = 2
    MaxSelections = 1
    ToolCalls = {1, 2}
    RpcIds = {1, 2}
    BatchRecords = 1
    StreamIds = {1, 2}
    MaxServes = 2
    Tools = {a, b, n}
    Versions = {{a, b}, {a, b, n}}
    Protected = {a}
    Forms = {1, 2}
    LargeCalls = {1, 2, 3}
    MaxOutputs = 1
    MaxRestarts = 1
    Clients = {c1, c2, c3}
    FileOf <- FileOfDef
    Order <- OrderDef
    Others = {s1}
    MaxRuns = 1
    MaxRows = 4
    Limits = {0, 1, 2, 3}
    MaxLimit = 2
    MaxOffset = 3
    DefaultLimit = 2
    ScanLimits = {1, 2, 3}
    RefsPerLimit = 3
    Funcs = {"f"}
    Data = {"d"}
    Identifiers = {"m", "n"}
    Fixed = {"r"}
    Members = {"p", "q"}
    Values = {1, 2}
    Enums = {"E", "G"}
    Types = {"t", "u"}
    Lines = {"k", "l"}
    EditBatches <- EditBatchesDef
    MaxTries = 2
    Mapped = {0, 1}
    Outside = {2}
    Base = 4
    Sizes = {1, 2}
    Offsets = {0, 4, 8}
    Kept = "arg"
    Plans <- PlansDef
    Starts <- StartsDef
    Subs = {1, 2, 3}
    Inside = 0
    Main = 1
    NoSub = 4
    Programs <- ProgramsDef
    Bounds <- BoundsDef
    Signature <- SignatureDef
    Inputs <- InputsDef
    NullId = "null id"
    Images <- ImagesDef
    Tilings <- TilingsDef
    Asks <- AsksDef
INVARIANTS
    WorkersAreKept
    WindowsAreFound
    
    
    
PROPERTIES
    
    ListsSettle
CHECK_DEADLOCK FALSE

\* Two processes, two process ids that are given out again, two files, one
\* plugin client and two calls of the tools.
SPECIFICATION WindowsSpec
CONSTANTS
    Procs = {p1, p2}
    Pids = {n1, n2}
    Insts = {i1}
    Files = {f1, f2}
    Calls = {k1, k2}
    NoProc = NoProc
    NoPid = NoPid
    NoFile = NoFile
    NoInst = NoInst
    FrameRoom = 1
CHECK_DEADLOCK FALSE
INVARIANTS
    
    
    RunningLaunchesListed
PROPERTIES
    KnownStaysKnown

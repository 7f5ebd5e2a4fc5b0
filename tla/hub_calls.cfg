SPECIFICATION FairSpec
CONSTANTS
    i1 = i1
    c1 = c1
    c2 = c2
    Insts = {i1}
    Conns = {c1}
    InstOf <- OneWindow
    Calls = {k1, k2}
    MetaCalls = {k1}
    NoConn = NoConn
    NoCall = NoCall
    SocketRoom = 1
    BeatRoom = 1
CHECK_DEADLOCK FALSE
INVARIANTS
    
    NoOrphanedCall
    AnswersAreReal
    NothingLeaks
    
PROPERTIES
    KeepsToolCallPromise
    

SPECIFICATION FairSpec
CONSTANTS
    i1 = i1
    c1 = c1
    c2 = c2
    Insts = {i1}
    Conns = {c1, c2}
    InstOf <- OneWindow
    Calls = {}
    MetaCalls = {}
    NoConn = NoConn
    NoCall = NoCall
    SocketRoom = 1
    BeatRoom = 1
CHECK_DEADLOCK FALSE
PROPERTIES
    LiveRegistrationKept
    OpenWindowStaysReachable

SPECIFICATION FairSpec
CONSTANTS
    Callers = {1, 2}
    NoCaller = NoCaller
CHECK_DEADLOCK FALSE
INVARIANTS
    NoHookLeft
    
PROPERTIES
    MainThreadReturns
    StoppedThreadExits
    

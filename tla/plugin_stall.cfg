SPECIFICATION ClientSpec
CONSTANTS
    Callers = {1, 2}
    NoCaller = NoCaller
CHECK_DEADLOCK FALSE
INVARIANT CallersAreAnswered

SPECIFICATION FairSpec
CONSTANTS
    c1 = c1
    m1 = m1
    m2 = m2
    ida = ida
    ida64 = ida64
    dir = dir
    nowhere = nowhere
    Clients = {c1}
    Msgs = {m1, m2}
    From <- MCFrom
    Transports = {"http", "stdio", "bridge"}
    Arguments <- MCArguments
    NoMsg = NoMsg
    Executables = {ida, ida64}
    Inside <- MCInside
    Missing = {nowhere}
    Configured <- MCConfigured
    Platform <- MCPlatform
    NameRank <- MCNameRank
CHECK_DEADLOCK FALSE
INVARIANTS
    AnswersInOrder
    
PROPERTIES
    KeepsRpcPromise
    RequestsAnswered

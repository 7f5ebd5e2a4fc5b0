SPECIFICATION CenterSpec
CONSTANTS
    small = small
    large = large
    huge = huge
    Messages = {small, large, huge}
    PayloadSize <- MCPayloadSize
    HeaderSize = 2
    MaxPayload = 3
    MaxSent = 3
CHECK_DEADLOCK FALSE
PROPERTIES
    KeepsPipePromise
    EverythingArrives

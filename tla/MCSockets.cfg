SPECIFICATION SocketsSpec
CONSTANTS
    Message <- Lines
    Chunk = 3
    ChannelSize = 3
    RioBuf = 2
    MaxAsk = 4
    Uses <- Calls
    Signals = 1
    Errors = 1
    Clients <- Three
    Setups <- Servers
    Getting <- EveryProgram
    Addresses = 3
    Goods <- SomeGood
    Failing <- MayFail
    Faults = 2
    Total = 4
    Header = 3
    Payload = 2
INVARIANTS Descriptors
PROPERTIES Arrives AllServed
CHECK_DEADLOCK FALSE

SPECIFICATION SuiteSpec
CONSTANTS
    a = a
    b = b
    c = c
    Producers <- ThreeProducers
    Initial = 1
    Fewest = 1
    MaxUnits = 4
    LineGoods = 8
    LineSize = 3
    Forks <- FourForks
    Fillers <- TwoFillers
    FillerGoods = 2
    PipeRoom = 2
    Pairs = 2
    PairGoods = 3
    StackRoom = 2
    QueueGoods = 24
    QueueLag = 10
    Writers <- ThreeWriters
    Readers <- OneReader
    CountLimit = 2
    FirstIds <- ZeroOrOne
    Interrupts = 2
    Instances <- ThreeInstances
    QueueRoom = 2
INVARIANTS Agree SharedKept QueuesServe
PROPERTIES ImplementsSemaphore Warehouses AllEnd
CHECK_DEADLOCK FALSE

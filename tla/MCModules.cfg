SPECIFICATION SuiteSpec
CONSTANTS
    FixedDrivers <- OneFixed
    DynamicDrivers <- TwoDynamic
    Tasks <- OneTask
    Majors <- ThreeMajors
    Timers <- OneTimer
    Tasklets <- TwoTasklets
    TimerRounds = 5
    MaxLoads = 2
    DiskSizes <- FourSizes
    IntSize = 8
    Contents <- TwoContents
    MaxQueue = 2
    MaxLength = 3
    Buffers <- TwoBuffers
    HZ = 2
    UIntMax = 3
    ULongSize = 32
    Boot = 30
    Ages <- TwoAges
    Targets <- TwoTargets
    MaxNow = 4
    Clients <- TwoClients
    BlockSizes <- ThreeBlockSizes
    PageSize = 2
    GfpLimit = 8
    Reserve = 1
    MaxCached = 2
INVARIANTS NothingDangles MemoryAccounted
PROPERTIES AgesRight ModulesGo
CHECK_DEADLOCK FALSE

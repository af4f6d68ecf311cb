SPECIFICATION SuiteSpec
CONSTANTS
    Width = 8
    Workers = {w1, w2}
    V <- SmallTree
    Bios <- SomeBios
    Modes <- AllModes
    MaxErrs = 2
    Contents <- AllContents
    Fillers = {}
    NoBuffer = NoBuffer
    SectorShift = 1
    PageSize = 8
    LogicalBlockSize = 2
    MaxLevels = 7
    Tables <- SmallTables
INVARIANTS OnlyVerified Reported Released Placed
PROPERTIES BiosEnd
CHECK_DEADLOCK FALSE

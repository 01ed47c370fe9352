SPECIFICATION FairSpec
CONSTANTS
    empty = empty  short = short  long = long  over = over  huge = huge  nan = nan
    Msgs <- MCMsgs
    Size <- MCSize
    NoText <- MCNoText
    GarbledSizes <- MCGarbledSizes
    Garbled = Garbled
    HdrLen = 2
    Width = 5
    MaxSize = 3
    PipeCap = 2
    MaxWrites = 2
    Faults = {"write", "read", "crash"}
INVARIANTS FaithfulUntilTorn AckedHasLeft BoundedAllocation
PROPERTIES ImplementsChannel WriteReturns AckedArrives
CHECK_DEADLOCK FALSE

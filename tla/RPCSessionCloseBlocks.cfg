CONSTANTS
    c1 = c1
    c2 = c2
    c3 = c3
    Closer = Closer
    None = None
    Calls <- TwoCalls
    Scenarios <- PipeScenario
    Sequenced = {c2}
    Impatient = {}
    Chunks = 2
    ChanCap = 1
    PipeCap = 1
SPECIFICATION FairSessionSpec
CHECK_DEADLOCK FALSE
PROPERTIES
    CloseDoesNotBlock

CONSTANTS
    c1 = c1
    c2 = c2
    c3 = c3
    Closer = Closer
    None = None
    Calls <- ThreeCalls
    Scenarios <- MCScenarios
    Sequenced = {c3}
    Impatient = {c2}
    Chunks = 1
    ChanCap = 1
    PipeCap = 2
SPECIFICATION FairSessionSpec
CHECK_DEADLOCK FALSE
INVARIANTS
    StdinInOrder
    RequestsRunOnOpenVM
    NoStrayListeners
    ClosedMeansClosed
PROPERTIES
    CloseEndsSession

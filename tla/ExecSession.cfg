SPECIFICATION ExecSpec
CONSTANTS
    Calls <- AllCalls
    PipeCap = 1
PROPERTIES ImplementsCall CallReturns CancelKills
CHECK_DEADLOCK FALSE

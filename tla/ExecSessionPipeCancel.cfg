SPECIFICATION ExecSpec
CONSTANTS
    Calls <- PipeCalls
    PipeCap = 1
PROPERTY DisconnectKillsPipe
CHECK_DEADLOCK FALSE

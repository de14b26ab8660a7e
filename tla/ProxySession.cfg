CONSTANTS
    c1 = c1
    c2 = c2
    None = None
    Conns <- Two
    Config <- AllScenarios
    Begins <- Segments
    MaxIdle = 1
SPECIFICATION ProxySpec
CHECK_DEADLOCK FALSE
INVARIANTS
    ProxyTypeOK
    ForwardedWasAllowed
    SecretsInScope
    ReusedAfterWholeAnswer
PROPERTIES
    PolicyCallsReturn

CONSTANTS
    p1 = p1
    p2 = p2
    r1 = r1
    r2 = r2
    Procs <- TwoProcs
    Tags <- OneTag
    Images <- SharedBase
    MaxCommands = 3
SPECIFICATION StoreSpec
SYMMETRY ProcSymmetry
CHECK_DEADLOCK FALSE
INVARIANTS
    AloneMeansComplete
PROPERTIES
    PruneKeepsReferenced

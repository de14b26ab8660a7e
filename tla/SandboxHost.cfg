CONSTANTS
    v1 = v1
    v2 = v2
    q1 = q1
    q2 = q2
    VMs <- OneVM
    Networked <- OneVM
    Admins <- TwoAdmins
    Commands <- RmGcAndPrune
    ForceRunning <- NoForce
    MinOctet = 100
    MaxOctet = 100
    MaxGen = 1
    RunRm = FALSE
    HostFaults = TRUE
    NftDenied = FALSE
SPECIFICATION HostSpec
CHECK_DEADLOCK FALSE
INVARIANTS
    HostTypeOK
    LeakIsRecoverable
    CleanedMeansClean
    ReconcileSkipsLiveVMs
PROPERTIES
    RemovalSparesLiveVMs

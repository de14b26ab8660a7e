CONSTANTS
    v1 = v1
    v2 = v2
    q1 = q1
    q2 = q2
    VMs <- TwoVMs
    Networked <- OneVM
    Admins <- OneAdmin
    Commands <- ListGcAndPrune
    ForceRunning <- NoForce
    MinOctet = 100
    MaxOctet = 100
    MaxGen = 1
    RunRm = TRUE
    HostFaults = FALSE
    NftDenied = FALSE
SPECIFICATION OperatedHostSpec
CHECK_DEADLOCK FALSE
INVARIANTS
    LiveVMKeepsResources
    LeakIsRecoverable
PROPERTIES
    CrashedIsReclaimed

CONSTANTS
    v1 = v1
    v2 = v2
    v3 = v3
    a1 = a1
    a2 = a2
    VMs <- MCVMs
    Allocators <- MCAllocators
    MinOctet = 100
    MaxOctet = 101
SPECIFICATION FairAllocatorSpec
INVARIANTS
    AllocatorTypeOK
    UniqueOctets
PROPERTIES
    ImplementsPool
    RowsNeverMove
    ExhaustedOnlyWhenFull
    CallsReturn

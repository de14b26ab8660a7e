CONSTANTS
    supervisor = supervisor
    reconciler = reconciler
    Writers <- MCWriters
    Steps <- MCSteps
    Program <- MCProgram
    MaxAttempts = 2
SPECIFICATION FairLifecycleSpec
INVARIANTS
    LifecycleTypeOK
    VersionsDense
PROPERTIES
    UpdatesFollowStateMachine
    UpdatesKeepMarks
    WritersFinish

SPECIFICATION FairDeployment
CONSTANTS
    STOP_FAILS = TRUE
    REENTERED = TRUE
    o1 = o1
    o2 = o2
    o3 = o3
    k1 = k1
    k2 = k2
    Row = {o1, o2, o3}
    KeyOf <- OneRetried
    Foreign = {o3}
    NoCommand = NoCommand
INVARIANTS
    DeploymentTypeOK
    ServingIsReady
    StoppedAtEnd
    PulseChecked
    SchemaMatchesRevision
PROPERTIES
    NeverHalfway
    Stranded
    CommandsKeepData

SPECIFICATION FairSpec
CONSTANTS
    InitialSeeds = {"a", "b", "c"}
INVARIANTS
    ShutGateAwaitsSeeds
    TypeOK
    OpenOnlyWhenEarned
PROPERTIES
    LostUpdatesAreHarmless
    GateStaysOpen
    GateOpens
CHECK_DEADLOCK FALSE

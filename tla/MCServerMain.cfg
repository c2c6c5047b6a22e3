CONSTANTS
    Rpcs = {r1, r2}
    NUp = 2
    Zones <- MCZones
    LookupOrder <- NoMoreLookups
    MaxFailures = 0
SPECIFICATION MainSpec
INVARIANTS
    StatsConserved
    PoolBalanced
    DrainedBeforeExit
PROPERTIES
    ShutsDown

CONSTANTS
    r1 = r1
    Rpcs <- OneRpc
    NUp = 0
    Zones <- SomeZones
    LookupOrder <- AllTypes
    MaxFailures = 0
SPECIFICATION Spec
INVARIANTS
    SkipMeansNoName

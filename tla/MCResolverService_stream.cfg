CONSTANTS
    r1 = r1
    Rpcs <- OneRpc
    NUp = 1
    Zones <- SomeZones
    LookupOrder <- AllTypes
    MaxFailures = 2
SPECIFICATION FairSpec
INVARIANTS
    StreamFaithful
PROPERTIES
    RpcReturns

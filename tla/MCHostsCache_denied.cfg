CONSTANTS
    c1 = c1
    c2 = c2
    nothing = nothing
    before = before
    after = after
    s1 = s1
    s2 = s2
    Callers <- TwoCallers
    Bodies <- AllBodies
    Empty = nothing
    ZeroStamp = ZeroStamp
    MaxAge = 2
    MaxFaults = 1
    Stamps <- TwoStamps
    Failures <- AllFailures
SPECIFICATION FairSpec
PROPERTIES
    HostsComeFirst

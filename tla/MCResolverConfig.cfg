CONSTANTS
    c1 = c1
    c2 = c2
    c3 = c3
    defaults = defaults
    plain = plain
    noreload = noreload
    m1 = m1
    m2 = m2
    m3 = m3
    Bodies <- AllBodies
    NoReload <- Locked
    Defaults = defaults
    ZeroTime = ZeroTime
    Nil = Nil
    Callers <- TwoCallers
    Stamps <- ThreeStamps
    Recheck = 2
    MaxFaults = 1
SPECIFICATION FairSpec
INVARIANTS
    OneChecker
    ConfigBeforeUse
    StampSound
    CheckedIsCurrent
    NeverBlocked
PROPERTIES
    EventuallyFresh

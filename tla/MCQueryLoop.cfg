CONSTANTS
    l1 = l1
    l2 = l2
    Types = {"A", "CNAME"}
    MaxAnswers = 2
    MaxAdds = 0
    QType = "A"
    Outcomes <- AllOutcomes
    Width = 2
    Lookups <- TwoLookups
    N = 2
    Attempts = 2
    Rotate = TRUE
SPECIFICATION Spec
INVARIANTS
    EveryServerTried
    RotationBalanced
PROPERTIES
    ImplementsNameQuery

CONSTANTS
    Types = {"A", "CNAME"}
    MaxAnswers = 3
    MaxAdds = 2
    QType = "A"
    Lines <- ConfLines
    MaxLines = 4
    Addrs <- ConfAddrs
    defaultNS <- ConfDefault
    HostDomain <- ConfHostDomain
    Second = 10
    MaxInt = 127
    Value <- HostsValue
    Spellings <- HostsSpellings
    HostNames <- HostsNames
    MaxHosts = 2
    MaxNames = 2
    Prefs = {1, 2}
    RecordWeights = {0, 1, 3}
    MaxRecords = 3
    Drawn = {0, 1, 2, 3, 4, 5}
    Texts <- FormatTexts
    FieldValues <- BodyValues
SPECIFICATION FormatsSpec
INVARIANTS
    VerdictJustified
    AnswersAreWhole
    DecodeFaithful
    OrderByWeight
    EqualsShuffled
    NamesAgree
    ConfUsable
    HostsMutual
CHECK_DEADLOCK FALSE

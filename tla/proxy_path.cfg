SPECIFICATION FairSpec
CONSTANTS
    Tokens <- MCTokens
    Numeral <- MCNumeral
    Decimal <- MCDecimal
    Files <- MCFiles
    Certificates <- MCCertificates
    Authorities <- MCAuthorities
    SystemIssuers = {"public"}
    Cases <- MCCases
    Proxy = "proxy"
    Rival = "rival"
    Threads = {"proxy", "rival"}
    RivalFrame <- MCRivalFrame
    ReadSize = 12
    HeaderLimit = 11
    Room = 4
INVARIANTS
    TypeOK
    SettingsAsGiven
    JoinsTheNamedHost
    DialsWhatWasAsked
    TargetReadsTheClient
    FailedNeverArrives
PROPERTIES
    FramesArrive
    FramesInOrder
CHECK_DEADLOCK FALSE

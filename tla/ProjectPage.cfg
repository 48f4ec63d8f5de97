SPECIFICATION FairSpec
CONSTANTS
    None = None
    FirstJob = 1
    PageSize = 1
    FirstLinks = 2
    Outcomes <- MCOutcomes
    MaxLinks = 2
    MaxInFlight = 1
    MaxPages = 3
    MaxActs = 1
    MaxIncidents = 1
INVARIANTS
    TypeOK
    ExactWhenSettled
    NoRowTwice
PROPERTY ButtonsComeBack
CHECK_DEADLOCK FALSE

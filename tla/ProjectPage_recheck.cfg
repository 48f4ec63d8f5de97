SPECIFICATION Spec
CONSTANTS
    None = None
    PageSize = 1
    FirstLinks = 1
    FirstJob = 1
    Outcomes <- MCOutcomes
    MaxLinks = 2
    MaxInFlight = 2
    MaxPages = 3
    MaxActs = 1
    MaxIncidents = 0


CHECK_DEADLOCK FALSE
PROPERTY PatchesSuffice

SPECIFICATION FairPublicationSpec
CONSTANTS
    Ingests = {r1, r2}
    Viewers = {}
    BatchLimit = 2
    Retained = 2
    Backlog = 1
    MaxRetries = 2
    InOrder = TRUE
    MaxWritten = 2
    MaxFaults = 2
PROPERTIES SpoolDrains StreamFollows
CHECK_DEADLOCK FALSE

SPECIFICATION PublicationSpec
CONSTANTS
    Ingests = {r1}
    Viewers = {v1}
    BatchLimit = 2
    Retained = 3
    Backlog = 1
    MaxRetries = 1
    InOrder = TRUE
    MaxWritten = 5
    MaxFaults = 1
INVARIANT NoSilentLoss
CHECK_DEADLOCK FALSE

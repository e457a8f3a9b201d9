SPECIFICATION PublicationSpec
CONSTANTS
    Ingests = {r1, r2}
    Viewers = {}
    BatchLimit = 2
    Retained = 2
    Backlog = 1
    MaxRetries = 1
    InOrder = FALSE
    MaxWritten = 3
    MaxFaults = 1
SYMMETRY IngestSymmetry
INVARIANTS PublicationTypeOK LiveDataIsDurable EventsContiguous AckedIsEnqueued EnqueuedIsAccountedFor
PROPERTY ImplementsFeed
CHECK_DEADLOCK FALSE

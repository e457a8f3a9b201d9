SPECIFICATION FairOutboxSpec
CONSTANTS
    Events = {b1, b2, m1, x1}
    Broadcasts = {b1, b2}
    Mails = {m1}
    Invalid = {x1}
    Flaky = {m1}
    Workers = {w1, w2}
    Page = 2
    Retained = 1
    MaxFaults = 1
INVARIANTS OutboxTypeOK BroadcastsSpaced
PROPERTIES ImplementsEventDelivery NoTakeoverUnderLease HealthyEventsSettle
CHECK_DEADLOCK FALSE

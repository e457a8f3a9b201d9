\* One command, two faults, expiry on either clock, fairness.
CONSTANTS
    k1 = k1
    k2 = k2
    c1 = c1
    c2 = c2
    r1 = r1
    Commands = {c1}
    Keys = {k1}
    Resources = {r1}
    Key <- MCKey
    Resource <- MCResource
    Prior <- MCPrior
    Inspections = {}
    Stamps = {1, 2, 3, 4, 5, 6}
    Processes = {p1}
    Pollers = {p1}
    Callers = {c1}
    Posted = {}
    Malformed = {}
    SelfUpdates = {}
    Expiring = {c1}
    MaxFaults = 2
SPECIFICATION FairSpec
INVARIANTS
    OutcomesAgree
    SuccessHasReceipt
PROPERTIES
    NoEffectAfterOutcome
    QueuedSettles
    StepLearns

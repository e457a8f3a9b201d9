\* One command and no fault: the route against the workflow step.
CONSTANTS
    k1 = k1
    k2 = k2
    c1 = c1
    c2 = c2
    r1 = r1
    Commands = {c1}
    Keys = {k1}
    Resources = {r1}
    Key <- MCKey
    Resource <- MCResource
    Prior <- MCPrior
    Inspections = {}
    Stamps = {1, 2, 3, 4}
    Processes = {p1}
    Pollers = {p1}
    Callers = {c1}
    Posted = {}
    Malformed = {}
    SelfUpdates = {}
    Expiring = {c1}
    MaxFaults = 0
SPECIFICATION Spec
INVARIANTS
    AcceptedResultIsRecordable

\* Two commands that do not expire, one agent, one fault.
CONSTANTS
    k1 = k1
    k2 = k2
    c1 = c1
    c2 = c2
    r1 = r1
    Commands = {c1, c2}
    Keys = {k1, k2}
    Resources = {r1}
    Key <- MCKey
    Resource <- MCResource
    Prior <- MCPrior
    Inspections = {}
    Stamps = {1, 2, 3, 4, 5}
    Processes = {p1}
    Pollers = {p1}
    Callers = {c1, c2}
    Posted = {}
    Malformed = {}
    SelfUpdates = {}
    Expiring = {}
    MaxFaults = 1
SPECIFICATION Spec
INVARIANTS
    TypeOK
PROPERTIES
    EffectsInOrder
    ImplementsLedger

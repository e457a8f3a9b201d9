\* A command of every kind: is a success under the claim stored as one?
CONSTANTS
    k1 = k1
    k2 = k2
    k3 = k3
    c1 = c1
    c1x = c1x
    c2 = c2
    c3 = c3
    r1 = r1
    Commands = {c1, c1x, c2, c3}
    Keys = {k1, k2, k3}
    Resources = {r1}
    Key <- MCKey
    Resource <- MCResource
    Prior <- MCKinds
    Inspections = {c3}
    Stamps = {1}
    Processes = {p1}
    Malformed = {c1x}
    SelfUpdates = {c1}
    Expiring = {c1}
SPECIFICATION AgentSpec
INVARIANTS
    SuccessUnderClaimIsStored

\* Two processes on one command-state file; leases may run out at any time.
CONSTANTS
    k1 = k1
    k2 = k2
    k3 = k3
    c1 = c1
    c1x = c1x
    c2 = c2
    c3 = c3
    r1 = r1
    Commands = {c1, c1x, c2, c3}
    Keys = {k1, k2, k3}
    Resources = {r1}
    Key <- MCKey
    Resource <- MCResource
    Prior <- MCPrior
    Inspections = {}
    Stamps = {1}
    Processes = {p1, p2}
    Malformed = {c1x}
    SelfUpdates = {c3}
    Expiring = {c1}
SYMMETRY ProcessSymmetry
SPECIFICATION AgentSpec
INVARIANTS
    AgentTypeOK
    RevisionIsLatestReceipt
    OneSuccessPerRevision
    SuccessWasApplied
PROPERTIES
    ReceiptIsFinal
    NoEffectAfterReceipt

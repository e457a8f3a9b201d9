\* Three commands and a conflicting payload, two polls, one result caller.
CONSTANTS
    k1 = k1
    k2 = k2
    k3 = k3
    c1 = c1
    c1x = c1x
    c2 = c2
    c3 = c3
    r1 = r1
    Commands = {c1, c1x, c2, c3}
    Keys = {k1, k2, k3}
    Resources = {r1}
    Key <- MCKey
    Resource <- MCResource
    Prior <- MCPrior
    Inspections = {c3}
    Stamps = {1, 2}
    Pollers = {p1, p2}
    Callers = {w1}
    Posted <- MCPosted
SYMMETRY PollerSymmetry
SPECIFICATION CoordinatorSpec
INVARIANTS
    CoordinatorTypeOK
    WatermarkIsContiguousPrefix
    NoLostWakeup
    AnswersAreDurable
PROPERTIES
    ResultIsFinal
    DeliveredInOrder

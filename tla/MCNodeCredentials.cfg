SPECIFICATION NodeSpec
CONSTANTS
    Types <- NodeTypes
    Last <- NodeLast
    Destructive <- NodeDestructive
    Policy <- NodePolicy
    Outcomes <- NodeOutcomes
    Requests = {r1}
    Tries = 2
    Servers = {s1}
INVARIANT RevokedOnlyWhenDrained
CHECK_DEADLOCK FALSE

SPECIFICATION NodeSpec
CONSTANTS
    Types <- NodeTypes
    Last <- NodeLast
    Destructive <- NodeDestructive
    Policy <- NodePolicy
    Outcomes <- NodeOutcomes
    Requests = {r1, r2}
    Tries = 2
    Servers = {s1}
SYMMETRY RequestSymmetry
INVARIANTS
    TerminationTypeOK
    OneProviderMutation
    ProviderActsOnEmptyNode
    EvidenceIsTrue
    CancelledBeforeProvider
PROPERTY ImplementsStepLedger
CHECK_DEADLOCK FALSE

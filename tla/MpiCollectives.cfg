SPECIFICATION Spec
CONSTANTS
    Ranks <- ThreeRanks
    Sessions <- BothSessions
    MaxIterations = 1
    MaxFaults = 2
INVARIANTS
    CollectivesMatch
    HaloFresh
    CommonDiagnostic
PROPERTIES
    EveryCallReturns
    ImplementsUnanimous
CHECK_DEADLOCK FALSE

SPECIFICATION Spec
CONSTANTS
    a = a
    b = b
    odd = odd
    outer = outer
    inner = inner
    Docs <- ThreeDocs
    Roots <- TwoRoots
    Path <- Nested
    Named <- Modules
    GroupOrder <- UriOrder
    Disks <- FourDisks
    Sessions <- FourSessions
    MaxMessages = 4
INVARIANTS
    TypeOK
    AnswersWhole
    DiagnosticsCurrent
PROPERTIES
    AnalysesEnd
    ImplementsSession
CHECK_DEADLOCK FALSE

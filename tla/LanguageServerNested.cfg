SPECIFICATION Spec
CONSTANTS
    a = a
    b = b
    odd = odd
    outer = outer
    inner = inner
    Docs <- ThreeDocs
    Roots <- TwoRoots
    Path <- Nested
    Named <- Modules
    GroupOrder <- UriOrder
    Disks <- FourDisks
    Sessions <- OneInAnother
    MaxMessages = 4
INVARIANTS OpenTakesPrecedence
CHECK_DEADLOCK FALSE

SPECIFICATION Spec
CONSTANTS
    Installers = {i1, i2}
    process = process
    Processes = {process}
    ProcessOf <- OneProcess
    Releases = {r1, r2}
    digest = digest
    DigestOf <- OneDigest
    Attempts = 2
    MaxCalls = 3
    MaxCrashes = 1
    NoRelease = NoRelease
    NoFile = NoFile
    NoStage = NoStage
SYMMETRY Symmetry
INVARIANTS
    TypeOK
    EntryComplete
PROPERTIES
    ImplementsStore
CHECK_DEADLOCK FALSE

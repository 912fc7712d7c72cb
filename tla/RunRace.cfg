SPECIFICATION Spec
CONSTANTS
    Callers = {c1, c2, c3}
    Families <- AllFamilies
    MaxSteps = 4
    NoHolder = NoHolder
    NoAnswer = NoAnswer
    NoObject = NoObject
    Broken = Broken
INVARIANTS
    TypeOK
    NeverIllegal
    ProgressExact
    EarlyCancelStops
PROPERTIES
    CallersAnswered
    ImplementsOneShot

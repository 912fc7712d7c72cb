SPECIFICATION Spec
CONSTANTS
    Callers = {c1}
    Families <- Stationary
    MaxSteps = 1
    NoHolder = NoHolder
    NoAnswer = NoAnswer
    NoObject = NoObject
    Broken = Broken
INVARIANT
    AcceptedCancelStops

SPECIFICATION Spec
CONSTANTS
    Writers = {w1}
    Readers = {r1}
    Manifests = {ma, mb}
    Locks = {la, lb}
    JournalIds = {j1, j2}
    NoLock = NoLock
    NoJournal = NoJournal
    NoPlan = NoPlan
    Unseen = Unseen
    Faults = {"sync", "unlink"}
SYMMETRY Symmetry
INVARIANTS TypeOK OldOrNew FailureRetains
PROPERTIES ImplementsPair

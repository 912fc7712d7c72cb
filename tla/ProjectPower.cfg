SPECIFICATION Spec
CONSTANTS
    Writers = {w1, w2}
    Readers = {}
    Manifests = {ma, mb}
    Locks = {la, lb}
    JournalIds = {j1, j2}
    NoLock = NoLock
    NoJournal = NoJournal
    NoPlan = NoPlan
    Unseen = Unseen
    Faults = {"power"}
SYMMETRY Symmetry
INVARIANTS EveryImageWhole OutcomeDurable NoLostUpdate

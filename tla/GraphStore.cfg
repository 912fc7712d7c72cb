SPECIFICATION Spec
CONSTANTS
    u1 = u1
    u2 = u2
    t1 = t1
    a1 = a1
    a2 = a2
    b1 = b1
    w = w
    NoValue = NoValue
    Ulids = {u1, u2, t1, t2}
    Values = {a1, a2, b1}
    TypeOf <- MCTypeOf
    ViewIds = {w}
    Clients = {c1}
    OpLists <- MCOpLists
    MaxRevision = 2
INVARIANTS TypeOK EdgesGrounded UlidsUnique ViewsComplete ProvenanceIsHistory SnapshotsOnHistory
PROPERTIES StructuralValuesStable ImplementsFederation
CHECK_DEADLOCK FALSE

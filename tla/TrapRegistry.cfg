SPECIFICATION Spec
CONSTANTS
    Ids = {1, 2}
    KindOf <- MCKindOf
    Addresses = {a1, a2}
    Requests = {q1, q2}
    None = None
    NoId = NoId
    MaxFaults = 2
SYMMETRY Symmetry
INVARIANTS EventsGiveTheirSource TrapsAreAttributed
CHECK_DEADLOCK FALSE

SPECIFICATION ServiceSpec
CONSTANTS
    Clients = {c1}
    Producers <- MCWorkers
    Messages <- MCCollections
    BroadcastCap = 1
    SendCap = 1
    None = None
    Devices = {d1, d2}
    Metrics = {cpu}
    MaxCollections = 2
    Free = Free
SYMMETRY Symmetry
INVARIANTS ServiceTypeOK NoOrphan
CHECK_DEADLOCK FALSE

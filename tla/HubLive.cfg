SPECIFICATION FairSpec
CONSTANTS
    Clients = {c1, c2}
    Producers = {p1}
    Messages = {m}
    BroadcastCap = 1
    SendCap = 1
    None = None
PROPERTIES BroadcastsReturn ConnectionsReleased
CHECK_DEADLOCK FALSE

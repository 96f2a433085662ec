SPECIFICATION FeedSpec
CONSTANTS
    Clients = {c1, c2}
    Producers = {p1, p2}
    Messages = {m1, m2, m3, m4}
    BroadcastCap = 2
    SendCap = 2
    None = None
SYMMETRY Symmetry
INVARIANTS
    TypeOK NoPanic LiveClientsServed UnbrokenFeed
CHECK_DEADLOCK FALSE
